---- MODULE Spec2Model ----
(***************************************************************************)
(* AIPassport: the frame scheduler (hooks/useCameraLoop), the detector     *)
(* adapter it calls (utils/faceDetection) and the subscriber that stores   *)
(* the published detection (components/WebcamCapture).                     *)
(*                                                                         *)
(* Execution model: one JavaScript event loop.  A requestAnimationFrame    *)
(* callback, a React commit (render + effect cleanup + effect setup) and   *)
(* the settlement of a promise (then / catch / finally run as consecutive  *)
(* microtasks) are each one atomic step.  The scheduler is one instance of *)
(* the hook, from its first render to its unmount: its refs live that      *)
(* long.  It is stopped when its effect has been cleaned up and not set up *)
(* again.                                                                  *)
(***************************************************************************)
EXTENDS Integers, Sequences, FiniteSets, TLC

(***************************************************************************)
(* Bounds of the model.                                                    *)
(***************************************************************************)
\* performance.now() runs from 0 to MaxTime (ms)
MaxTime == 750
\* time between two display refreshes, and the grain of the clock (ms)
FrameDt == 125

(***************************************************************************)
(* Program constants.                                                      *)
(***************************************************************************)
\* detectionThrottle = 250 (ms between detections)
detectionThrottle == 250
\* detectionScale = 0.25 = 1 / detectionScaleInv
detectionScaleInv == 4
\* HTMLMediaElement.HAVE_CURRENT_DATA, the literal 2 of "readyState < 2"
HAVE_CURRENT_DATA == 2

(***************************************************************************)
(* JavaScript values.  A number is finite (an integer here), NaN or        *)
(* Infinity; null / undefined is the record Null.                          *)
(***************************************************************************)
Num(v) == [k |-> "num", v |-> v]
NaN == [k |-> "NaN", v |-> 0]
Infinity == [k |-> "Infinity", v |-> 0]
Null == [k |-> "null"]

\* n * f for a finite positive f
Times(n, f) == IF n.k = "num" THEN [n EXCEPT !.v = n.v * f] ELSE n
\* a + b
Plus(a, b) ==
  IF a.k = "NaN" \/ b.k = "NaN" THEN NaN
  ELSE IF a.k = "Infinity" \/ b.k = "Infinity" THEN Infinity
  ELSE Num(a.v + b.v)
\* a / n for a positive integer n (the model's keypoints keep the sums divisible)
Over(a, n) == IF a.k = "num" THEN Num(a.v \div n) ELSE a
\* Math.floor(w * detectionScale) for an integer w >= 0
FloorScale(w) == w \div detectionScaleInv

\* JSON.stringify of a number: NaN and Infinity serialise as null
JSONNumber(n) == IF n.k = "num" THEN ToString(n.v) ELSE "null"
\* JSON.stringify(box): the keys in insertion order; undefined for undefined
JSONstringify(box) ==
  IF box = Null THEN <<"undefined">>
  ELSE << "x", JSONNumber(box.x), "y", JSONNumber(box.y),
          "width", JSONNumber(box.width), "height", JSONNumber(box.height) >>

\* result?.boundingBox
BoundingBoxOf(result) == IF result = Null THEN Null ELSE result.boundingBox

(***************************************************************************)
(* What detector.estimateFaces can answer: it throws, it finds no face,    *)
(* or it returns a first face with a box and keypoints.                    *)
(***************************************************************************)
LeftEyeIdx == <<33, 133, 159, 145>>
RightEyeIdx == <<362, 263, 386, 374>>
UsedKeypoints == {33, 133, 159, 145, 362, 263, 386, 374, 1, 13, 152}

Point(x, y) == [x |-> x, y |-> y]
\* keypoints with both eyes at height e
Keypoints(e) ==
  [i \in UsedKeypoints |->
     IF i \in {33, 133, 159, 145} THEN Point(Num(0), Num(e))
     ELSE IF i \in {362, 263, 386, 374} THEN Point(Num(1), Num(e))
     ELSE Point(Num(1), Num(1))]
ModelBox(x) == [xMin |-> x, yMin |-> Num(0), width |-> Num(1), height |-> Num(1)]
ModelFace(x, e) == [box |-> ModelBox(x), keypoints |-> Keypoints(e)]

\* two faces with the same box and different landmarks, a face with another box,
\* and two faces whose boxes are not finite
ModelFaces ==
  { ModelFace(Num(0), 0), ModelFace(Num(0), 1), ModelFace(Num(1), 0),
    ModelFace(NaN, 0), ModelFace(Infinity, 0) }
EstimateOutcomes ==
  { [k |-> "throws", faces |-> <<>>], [k |-> "faces", faces |-> <<>>] }
    \cup { [k |-> "faces", faces |-> <<f>>] : f \in ModelFaces }

\* the states of the <video> element: nothing loaded, metadata only, a stream
\* without video dimensions, a playing stream, a playing stream under 4 px wide
VideoStates ==
  { [readyState |-> 0, videoWidth |-> 0, videoHeight |-> 0],
    [readyState |-> 2, videoWidth |-> 0, videoHeight |-> 0],
    [readyState |-> 4, videoWidth |-> 8, videoHeight |-> 8],
    [readyState |-> 4, videoWidth |-> 2, videoHeight |-> 8] }

VARIABLES
  \* ---- props of useCameraLoop at the last commit
  enabled, videoElement, canvasElement,
  \* ---- refs of useCameraLoop
  animationFrameRef, lastDetectionTimeRef, detectionCanvasRef,
  isDetectingRef, lastFaceResultRef,
  \* ---- the module-level detector of utils/faceDetection
  detector,
  \* ---- WebcamCapture: currentFaceDetection, set by handleFaceDetected
  currentFaceDetection,
  \* ---- the browser
  now,            \* performance.now()
  video,          \* the <video> element
  previewCanvas,  \* the preview <canvas>: has a 2d context or not, its size
  rafQueue,       \* the requestAnimationFrame callbacks not yet run
  inflight,       \* the detection cycles whose estimateFaces has not settled
  mounted,        \* the component has not been unmounted
  \* ---- history
  cycleCount,     \* detection cycles begun so far
  lastStart,      \* when the latest two cycles began, and whether the effect re-ran
  delivered,      \* the cycle and the result onFaceDetected was last called with
  log,            \* what the last step did
  \* ---- App: its five useState cells
  appState, capturedPhoto, complianceResult, processedImageData, isProcessing,
  \* ---- useWebcam of the mounted WebcamCapture: "starting", "stream" or "error"
  camera,
  \* ---- the browser: FileReader reads and image loads awaited by a handler
  pending,
  \* ---- history of the workflow
  captureCount,   \* captures and uploads begun so far
  discarded,      \* the captures whose photo handleRetake has cleared
  wf,             \* what the last workflow step did
  \* ---- one call of checkCompliance: its arguments and what it returned
  complianceArgs, complianceReturn,
  \* ---- the arguments of the latest call of calculatePoseGuidance or
  \* ---- usePoseGuidance, what it returned, and the cell of useMemo
  guidanceArgs, guidanceReturn, guidanceMemo,
  \* ---- useFaceDetection of the current WebcamCapture: its instance, whether it
  \* ---- is mounted, its prop enabled, and its useState cells
  hook,
  \* ---- the calls of initializeFaceDetection that await createDetector
  loads,
  \* ---- every model createDetector was asked for, in order: what became of
  \* ---- it, and how often its dispose() has run
  models,
  \* ---- useWebcam of the current WebcamCapture: its instance, whether it is
  \* ---- mounted, its useState cells stream and error; the calls of
  \* ---- startWebcam made so far
  webcam,
  \* ---- the calls of startWebcam that await getUserMedia
  starts,
  \* ---- every MediaStream getUserMedia gave, in order: the instance that asked
  \* ---- for it, whether setStream kept it, whether its tracks are live
  streams,
  \* ---- one detection cycle on a frame: the video, the face in it, and what
  \* ---- the then-callback has after scaling back
  scaleArgs, scaleReturn

\* the state of useFaceDetection and of the models behind the module's
\* detector; the state of useWebcam and the streams of the camera
initVars == << hook, loads, models, webcam, starts, streams, scaleArgs, scaleReturn >>

\* the state of App and of the browser work its handlers wait for
workflowVars ==
  << appState, capturedPhoto, complianceResult, processedImageData, isProcessing,
     camera, pending, captureCount, discarded, wf >>

\* the arguments and results of the two engines, and the model initialisation
engineVars ==
  << complianceArgs, complianceReturn, guidanceArgs, guidanceReturn, guidanceMemo,
     initVars >>

vars ==
  << enabled, videoElement, canvasElement, animationFrameRef,
     lastDetectionTimeRef, detectionCanvasRef, isDetectingRef,
     lastFaceResultRef, detector, currentFaceDetection, now, video,
     previewCanvas, rafQueue, inflight, mounted, cycleCount, lastStart,
     delivered, log, workflowVars, engineVars >>

(***************************************************************************)
(* utils/faceDetection: detectFaces.                                       *)
(***************************************************************************)
\* points.reduce((sum, p) => sum + p.c, 0) / points.length, for c = x and c = y
MeanPoint(keypoints, idx) ==
  Point(Over(Plus(Plus(Plus(Plus(Num(0), keypoints[idx[1]].x), keypoints[idx[2]].x),
                       keypoints[idx[3]].x), keypoints[idx[4]].x), Len(idx)),
        Over(Plus(Plus(Plus(Plus(Num(0), keypoints[idx[1]].y), keypoints[idx[2]].y),
                       keypoints[idx[3]].y), keypoints[idx[4]].y), Len(idx)))

\* the FaceDetectionResult detectFaces builds from the first face
FaceDetectionResult(face) ==
  [ boundingBox |-> [ x |-> face.box.xMin, y |-> face.box.yMin,
                      width |-> face.box.width, height |-> face.box.height ],
    landmarks |-> [ leftEye |-> MeanPoint(face.keypoints, LeftEyeIdx),
                    rightEye |-> MeanPoint(face.keypoints, RightEyeIdx),
                    nose |-> face.keypoints[1],
                    mouth |-> face.keypoints[13],
                    chin |-> face.keypoints[152] ],
    confidence |-> "0.9" ]

\* mutant: the dimensions of the input are not looked at
DetectFacesSkipsModel_NoSizeCheck(det, input) == ~det

\* detectFaces answers null at once, without calling the model: no detector, or
\* an input of width or height 0
DetectFacesSkipsModel(det, input) ==
  ~det \/ input.width = 0 \/ input.height = 0

\* what the promise of detectFaces resolves to once estimateFaces has settled:
\* an exception of the model is caught and null returned
DetectFacesResolves(outcome) ==
  IF outcome.k = "throws" THEN Null
  ELSE IF Len(outcome.faces) = 0 THEN Null
  ELSE FaceDetectionResult(outcome.faces[1])

(***************************************************************************)
(* hooks/useCameraLoop.                                                    *)
(***************************************************************************)
\* the video is ready for this tick
VideoReady(v) ==
  ~(v.readyState < HAVE_CURRENT_DATA \/ v.videoWidth = 0 \/ v.videoHeight = 0)

\* mutant: the reentrancy guard is missing
ShouldDetect_NoGuard(timeSinceLastDetection, isDetecting) ==
  timeSinceLastDetection >= detectionThrottle

\* mutant: the throttle is missing
ShouldDetect_NoThrottle(timeSinceLastDetection, isDetecting) == ~isDetecting

\* the throttle has elapsed and no detection is in flight
ShouldDetect(timeSinceLastDetection, isDetecting) ==
  timeSinceLastDetection >= detectionThrottle /\ ~isDetecting

\* getDetectionCanvas: the canvas of the ref, created at the scaled size of the
\* video when the ref is empty (has2d: whether the new canvas gives a 2d
\* context).  renderLoop calls it past its own videoElement check, so the
\* answer is never null.
GetDetectionCanvas(ref, v, has2d) ==
  IF ref = Null
  THEN [k |-> "canvas", has2d |-> has2d,
        width |-> FloorScale(v.videoWidth), height |-> FloorScale(v.videoHeight)]
  ELSE ref

\* "Update detection canvas size if needed"
ResizeDetectionCanvas(c, v) ==
  [c EXCEPT !.width = FloorScale(v.videoWidth), !.height = FloorScale(v.videoHeight)]

\* "Update canvas size if needed", of the preview canvas
ResizePreviewCanvas(c, v) ==
  [c EXCEPT !.width = v.videoWidth, !.height = v.videoHeight]

\* the then-callback scales the box and the landmarks back up
ScaleBack(result) ==
  IF result = Null THEN Null
  ELSE [ result EXCEPT
           !.boundingBox =
              [ x |-> Times(result.boundingBox.x, detectionScaleInv),
                y |-> Times(result.boundingBox.y, detectionScaleInv),
                width |-> Times(result.boundingBox.width, detectionScaleInv),
                height |-> Times(result.boundingBox.height, detectionScaleInv) ],
           !.landmarks =
              [ key \in DOMAIN result.landmarks |->
                  Point(Times(result.landmarks[key].x, detectionScaleInv),
                        Times(result.landmarks[key].y, detectionScaleInv)) ] ]

\* mutant: every result is published
ResultChanged_Always(result, last) == TRUE

\* mutant: the comparison is inverted (=== for !==)
ResultChanged_Inverted(result, last) ==
  JSONstringify(BoundingBoxOf(result)) = JSONstringify(BoundingBoxOf(last))

\* "Only call callback if result changed"
ResultChanged(result, last) ==
  JSONstringify(BoundingBoxOf(result)) # JSONstringify(BoundingBoxOf(last))

\* mutant: the flag is cleared in the then-callback only, not after a failure
FinallyIsDetecting_SkippedOnFailure(outcomeKind) == outcomeKind = "throws"

\* isDetectingRef after the promise chain has settled (.finally)
FinallyIsDetecting(outcomeKind) == FALSE

\* mutant: the cleanup does not cancel the pending frame
CancelAnimationFrame_Noop(queue, id) == queue

\* cancelAnimationFrame(id)
CancelAnimationFrame(queue, id) == { e \in queue : e.id # id }

\* requestAnimationFrame: an id no pending callback and no ref holds
RequestId(queue, ref) ==
  CHOOSE i \in 1..(Cardinality(queue) + 2) :
    i # ref /\ \A e \in queue : e.id # i

\* the callback renderLoop of one render, with the props it closes over
RenderLoopOf(id, en, ve, ce) ==
  [id |-> id, enabled |-> en, videoElement |-> ve, canvasElement |-> ce]

(***************************************************************************)
(* The log of a step: what a tick did, and what a settled cycle gave.      *)
(***************************************************************************)
NoLog ==
  [ op |-> "other", ready |-> FALSE, copied |-> FALSE, started |-> FALSE,
    detDraw |-> FALSE, rescheduled |-> FALSE, settled |-> FALSE,
    failed |-> FALSE, result |-> Null, published |-> FALSE, onError |-> FALSE ]

\* the useEffect cleanup: cancel the pending frame, drop the detection canvas
EffectCleanup(ref, queue) ==
  [ animationFrameRef |-> 0,
    rafQueue |-> IF ref # 0 THEN CancelAnimationFrame(queue, ref) ELSE queue,
    detectionCanvasRef |-> Null ]

\* the then-callback, for a result of cycle c: scale back, compare with the
\* last published result, publish on change; onFaceDetected is
\* WebcamCapture.handleFaceDetected, whose setState React drops once unmounted
Publishes(resolved) == ResultChanged(ScaleBack(resolved), lastFaceResultRef)

\* nothing in the then-callback throws (onFaceDetected is a state setter), so
\* the catch-callback, the only caller of onError, never runs
ThenCallbackThrows == FALSE

\* the log of a workflow step: the handler that ran ("capture", "accept",
\* "retake", "download", "upload", or "other"), whether it began or completed,
\* the workflow state it found, the invocation it belongs to, whether its catch
\* block ran (an alert was shown), and whether checkCompliance was called
NoWf ==
  [ op |-> "other", phase |-> "none", from |-> "capture", call |-> Null,
    alerted |-> FALSE, rulesEvaluated |-> FALSE ]

ThenCallback(c, resolved) ==
  LET result == ScaleBack(resolved)
      changed == Publishes(resolved)
  IN  /\ lastFaceResultRef' = IF changed THEN result ELSE lastFaceResultRef
      /\ currentFaceDetection' =
           IF changed /\ mounted THEN result ELSE currentFaceDetection
      /\ delivered' = IF changed THEN [cycle |-> c, result |-> result] ELSE delivered

\* useCameraLoop before its first render, the browser around it
InitCameraLoop ==
  /\ enabled = FALSE /\ videoElement = FALSE /\ canvasElement = FALSE
  /\ animationFrameRef = 0
  /\ lastDetectionTimeRef = 0
  /\ detectionCanvasRef = Null
  /\ isDetectingRef = FALSE
  /\ lastFaceResultRef = Null
  /\ detector = FALSE
  /\ currentFaceDetection = Null
  /\ now = 0
  /\ video \in { v \in VideoStates : v.readyState = 0 }
  /\ previewCanvas \in { [has2d |-> b, width |-> 300, height |-> 150] : b \in BOOLEAN }
  /\ rafQueue = {}
  /\ inflight = {}
  /\ mounted = TRUE
  /\ cycleCount = 0
  /\ lastStart = [ prev |-> -1, latest |-> -1,
                   restartedBetween |-> FALSE, restartedSince |-> FALSE ]
  /\ delivered = [cycle |-> 0, result |-> Null]
  /\ log = NoLog

\* App: useState('capture'), useState(null) x 3, useState(false); WebcamCapture
\* has mounted and its effect has called startWebcam
InitApp ==
  /\ appState = "capture"
  /\ capturedPhoto = Null
  /\ complianceResult = Null
  /\ processedImageData = Null
  /\ isProcessing = FALSE
  /\ camera = "starting"
  /\ pending = {}
  /\ captureCount = 0
  /\ discarded = {}
  /\ wf = NoWf

\* no call of checkCompliance yet
InitNoComplianceCall == complianceArgs = Null /\ complianceReturn = Null
\* no call of calculatePoseGuidance yet
InitNoGuidanceCall == guidanceArgs = Null /\ guidanceReturn = Null /\ guidanceMemo = Null

\* useFaceDetection of the first WebcamCapture before a stream exists; no
\* model has been asked for
InitFaceDetectionHook ==
  /\ hook = [ instance |-> 1, mounted |-> TRUE, enabled |-> FALSE,
              isInitialized |-> FALSE, isLoading |-> FALSE, error |-> FALSE ]
  /\ loads = {}
  /\ models = << >>

\* useWebcam of the first WebcamCapture: the mount effect has called startWebcam
InitWebcam ==
  /\ webcam = [ instance |-> 1, mounted |-> TRUE, stream |-> 0, error |-> FALSE,
                calls |-> 1 ]
  /\ starts = { [instance |-> 1, call |-> 1] }
  /\ streams = << >>

InitNoScaling == scaleArgs = Null /\ scaleReturn = Null

Init ==
  /\ InitCameraLoop /\ InitApp /\ InitNoComplianceCall /\ InitNoGuidanceCall
  /\ InitFaceDetectionHook /\ InitWebcam /\ InitNoScaling

\* A commit of the component with the props (en, ve, ce): the effect of the
\* previous render is cleaned up and the effect of this one runs.  A commit that
\* changes none of the effect's dependencies runs neither and is no step.
Rerender(en, ve, ce) ==
  /\ UNCHANGED << workflowVars, engineVars >>
  /\ mounted
  /\ LET cleaned == EffectCleanup(animationFrameRef, rafQueue)
         id == RequestId(cleaned.rafQueue, cleaned.animationFrameRef)
     IN  IF en /\ ve /\ ce
         THEN /\ animationFrameRef' = id
              /\ rafQueue' = cleaned.rafQueue \cup {RenderLoopOf(id, en, ve, ce)}
         ELSE /\ animationFrameRef' = cleaned.animationFrameRef
              /\ rafQueue' = cleaned.rafQueue
  /\ detectionCanvasRef' = EffectCleanup(animationFrameRef, rafQueue).detectionCanvasRef
  /\ enabled' = en /\ videoElement' = ve /\ canvasElement' = ce
  /\ lastStart' = [lastStart EXCEPT !.restartedSince = (cycleCount > 0)]
  /\ log' = NoLog
  /\ UNCHANGED << lastDetectionTimeRef, isDetectingRef, lastFaceResultRef, detector,
                  currentFaceDetection, now, video, previewCanvas, inflight,
                  mounted, cycleCount, delivered >>

\* The component is unmounted: the effect is cleaned up for the last time.
Unmount ==
  /\ UNCHANGED << workflowVars, engineVars >>
  /\ mounted
  /\ mounted' = FALSE
  /\ LET cleaned == EffectCleanup(animationFrameRef, rafQueue)
     IN  /\ animationFrameRef' = cleaned.animationFrameRef
         /\ rafQueue' = cleaned.rafQueue
         /\ detectionCanvasRef' = cleaned.detectionCanvasRef
  /\ log' = NoLog
  /\ UNCHANGED << enabled, videoElement, canvasElement, lastDetectionTimeRef,
                  isDetectingRef, lastFaceResultRef, detector, currentFaceDetection,
                  now, video, previewCanvas, inflight, cycleCount, lastStart,
                  delivered >>

\* The <video> element changes state (stream attached, metadata, track ended).
VideoChange(v) ==
  /\ UNCHANGED << workflowVars, engineVars >>
  /\ v # video
  /\ video' = v
  /\ log' = NoLog
  /\ UNCHANGED << enabled, videoElement, canvasElement, animationFrameRef,
                  lastDetectionTimeRef, detectionCanvasRef, isDetectingRef,
                  lastFaceResultRef, detector, currentFaceDetection, now,
                  previewCanvas, rafQueue, inflight, mounted, cycleCount,
                  lastStart, delivered >>

\* Time passes with no callback of the scheduler running.
Elapse ==
  /\ UNCHANGED << workflowVars, engineVars >>
  /\ now + FrameDt <= MaxTime
  /\ now' = now + FrameDt
  /\ log' = NoLog
  /\ UNCHANGED << enabled, videoElement, canvasElement, animationFrameRef,
                  lastDetectionTimeRef, detectionCanvasRef, isDetectingRef,
                  lastFaceResultRef, detector, currentFaceDetection, video,
                  previewCanvas, rafQueue, inflight, mounted, cycleCount,
                  lastStart, delivered >>

\* initializeFaceDetection has loaded the model: the module's detector is set.
initializeFaceDetection ==
  /\ UNCHANGED << workflowVars, engineVars >>
  /\ ~detector
  /\ detector' = TRUE
  /\ log' = NoLog
  /\ UNCHANGED << enabled, videoElement, canvasElement, animationFrameRef,
                  lastDetectionTimeRef, detectionCanvasRef, isDetectingRef,
                  lastFaceResultRef, currentFaceDetection, now, video,
                  previewCanvas, rafQueue, inflight, mounted, cycleCount,
                  lastStart, delivered >>

\* cleanupFaceDetection: the detector is disposed and the module's variable reset.
cleanupFaceDetection ==
  /\ UNCHANGED << workflowVars, engineVars >>
  /\ detector
  /\ detector' = FALSE
  /\ log' = NoLog
  /\ UNCHANGED << enabled, videoElement, canvasElement, animationFrameRef,
                  lastDetectionTimeRef, detectionCanvasRef, isDetectingRef,
                  lastFaceResultRef, currentFaceDetection, now, video,
                  previewCanvas, rafQueue, inflight, mounted, cycleCount,
                  lastStart, delivered >>

\* mutant: the copy waits for the detection in flight
CopiesFrame_WhenIdle(isDetecting) == ~isDetecting

\* the frame is copied to the preview canvas on this tick: ctx.drawImage runs
\* before, and whatever the state of, the detection
CopiesFrame(isDetecting) == TRUE

\* The part of renderLoop after the frame copy, at time t: the throttled start
\* of a detection cycle.  has2d: whether a detection canvas created now gives a
\* 2d context.  detectFaces runs up to its first await inside the tick; when it
\* returns null without calling the model, the promise chain settles in the
\* microtasks that follow the tick, before any other callback.
ThrottledDetection(t, has2d) ==
  IF ShouldDetect(t - lastDetectionTimeRef, isDetectingRef)
  THEN LET c == cycleCount + 1
           detectionCanvas == GetDetectionCanvas(detectionCanvasRef, video, has2d)
           drawn == ResizeDetectionCanvas(detectionCanvas, video)
       IN  /\ lastDetectionTimeRef' = t
           /\ cycleCount' = c
           /\ lastStart' = [ prev |-> lastStart.latest, latest |-> t,
                              restartedBetween |-> lastStart.restartedSince,
                              restartedSince |-> FALSE ]
           /\ IF ~detectionCanvas.has2d
              THEN /\ detectionCanvasRef' = detectionCanvas
                   /\ isDetectingRef' = TRUE
                   /\ log' = [NoLog EXCEPT !.op = "tick", !.ready = TRUE, !.copied = CopiesFrame(isDetectingRef),
                                           !.rescheduled = TRUE, !.started = TRUE]
                   /\ UNCHANGED << inflight, lastFaceResultRef, currentFaceDetection,
                                   delivered >>
              ELSE /\ detectionCanvasRef' = drawn
                   /\ IF DetectFacesSkipsModel(detector, drawn)
                      THEN /\ ThenCallback(c, Null)
                           /\ isDetectingRef' = FinallyIsDetecting("null")
                           /\ inflight' = inflight
                           /\ log' = [NoLog EXCEPT !.op = "tick", !.ready = TRUE,
                                        !.copied = CopiesFrame(isDetectingRef), !.rescheduled = TRUE,
                                        !.started = TRUE, !.detDraw = TRUE,
                                        !.settled = TRUE, !.result = Null,
                                        !.published = Publishes(Null),
                                        !.onError = ThenCallbackThrows]
                      ELSE /\ isDetectingRef' = TRUE
                           /\ inflight' = inflight \cup {c}
                           /\ log' = [NoLog EXCEPT !.op = "tick", !.ready = TRUE,
                                        !.copied = CopiesFrame(isDetectingRef), !.rescheduled = TRUE,
                                        !.started = TRUE, !.detDraw = TRUE]
                           /\ UNCHANGED << lastFaceResultRef, currentFaceDetection,
                                           delivered >>
  ELSE /\ log' = [NoLog EXCEPT !.op = "tick", !.ready = TRUE, !.copied = CopiesFrame(isDetectingRef),
                               !.rescheduled = TRUE]
       /\ UNCHANGED << lastDetectionTimeRef, cycleCount, lastStart, detectionCanvasRef,
                       isDetectingRef, inflight, lastFaceResultRef,
                       currentFaceDetection, delivered >>

\* One display refresh runs the pending callback e (renderLoop of some render).
Tick(e, has2d) ==
  /\ UNCHANGED << workflowVars, engineVars >>
  /\ e \in rafQueue
  /\ now + FrameDt <= MaxTime
  /\ now' = now + FrameDt
  /\ UNCHANGED << enabled, videoElement, canvasElement, detector, video, mounted >>
  /\ LET rest == rafQueue \ {e}
         id == RequestId(rest, animationFrameRef)
         again == rest \cup {[e EXCEPT !.id = id]}
     IN  IF ~e.enabled \/ ~e.videoElement \/ ~e.canvasElement
         THEN \* return: nothing is drawn, nothing is scheduled
              /\ rafQueue' = rest
              /\ log' = [NoLog EXCEPT !.op = "tick"]
              /\ UNCHANGED << animationFrameRef, previewCanvas, lastDetectionTimeRef,
                              cycleCount, lastStart, detectionCanvasRef, isDetectingRef,
                              inflight, lastFaceResultRef, currentFaceDetection,
                              delivered >>
         ELSE IF ~VideoReady(video)
         THEN \* "Video not ready, try again next frame"
              /\ animationFrameRef' = id
              /\ rafQueue' = again
              /\ log' = [NoLog EXCEPT !.op = "tick", !.rescheduled = TRUE]
              /\ UNCHANGED << previewCanvas, lastDetectionTimeRef, cycleCount, lastStart,
                              detectionCanvasRef, isDetectingRef, inflight,
                              lastFaceResultRef, currentFaceDetection, delivered >>
         ELSE IF ~previewCanvas.has2d
         THEN \* "if (!ctx) return"
              /\ rafQueue' = rest
              /\ log' = [NoLog EXCEPT !.op = "tick", !.ready = TRUE]
              /\ UNCHANGED << animationFrameRef, previewCanvas, lastDetectionTimeRef,
                              cycleCount, lastStart, detectionCanvasRef, isDetectingRef,
                              inflight, lastFaceResultRef, currentFaceDetection,
                              delivered >>
         ELSE /\ previewCanvas' = ResizePreviewCanvas(previewCanvas, video)
              /\ ThrottledDetection(now + FrameDt, has2d)
              /\ animationFrameRef' = id
              /\ rafQueue' = again

\* estimateFaces of cycle c settles with outcome: detectFaces resolves, then the
\* then-, catch- and finally-callbacks of renderLoop run.
Resolve(c, outcome) ==
  /\ UNCHANGED << workflowVars, engineVars >>
  /\ c \in inflight
  /\ inflight' = inflight \ {c}
  /\ ThenCallback(c, DetectFacesResolves(outcome))
  /\ isDetectingRef' = FinallyIsDetecting(outcome.k)
  /\ log' = [NoLog EXCEPT !.op = "settle", !.settled = TRUE,
                          !.failed = (outcome.k = "throws"),
                          !.result = ScaleBack(DetectFacesResolves(outcome)),
                          !.published = Publishes(DetectFacesResolves(outcome)),
                          !.onError = ThenCallbackThrows]
  /\ UNCHANGED << enabled, videoElement, canvasElement, animationFrameRef,
                  lastDetectionTimeRef, detectionCanvasRef, detector, now, video,
                  previewCanvas, rafQueue, mounted, cycleCount, lastStart >>

Next ==
  \/ \E e \in rafQueue, has2d \in BOOLEAN : Tick(e, has2d)
  \/ \E c \in inflight, outcome \in EstimateOutcomes : Resolve(c, outcome)
  \/ \E en \in BOOLEAN, ve \in BOOLEAN, ce \in BOOLEAN : Rerender(en, ve, ce)
  \/ Unmount
  \/ \E v \in VideoStates : VideoChange(v)
  \/ Elapse
  \/ initializeFaceDetection
  \/ cleanupFaceDetection

Spec == Init /\ [][Next]_vars

(***************************************************************************)
(* Properties of the frame scheduler.                                      *)
(***************************************************************************)
\* the scheduler has been started by its effect and not stopped since
Running == mounted /\ enabled /\ videoElement /\ canvasElement
Stopped == ~Running

\* a step in which a callback of the scheduler ran on a display refresh
TickStep == now' > now /\ log'.op = "tick"
\* a step in which a detection cycle completed (its promise chain settled)
SettleStep == log'.settled /\ (inflight' # inflight \/ cycleCount' # cycleCount)

C2_StaleResultDiscarded ==
  [][(Stopped /\ inflight' # inflight) =>
       /\ ~log'.published
       /\ lastFaceResultRef' = lastFaceResultRef
       /\ delivered' = delivered
       /\ ~log'.onError]_vars

\* C3: onFaceDetected is called only when the box of the new result differs by
\* value from the box of the result published before; an identical box and
\* none after none are not published; face to none and none to face are.
C3_PublishOnlyOnChange ==
  [][SettleStep =>
       /\ log'.published =>
            BoundingBoxOf(log'.result) # BoundingBoxOf(delivered.result)
       /\ BoundingBoxOf(log'.result) = BoundingBoxOf(delivered.result) =>
            ~log'.published /\ delivered' = delivered
       /\ (log'.result = Null) # (delivered.result = Null) => log'.published
       /\ log'.published => delivered'.result = log'.result]_vars

\* C3 witness: a result with a face was not published, its box being the one
\* published before
C3_Witness ==
  /\ log.settled /\ ~log.published
  /\ log.result # Null
  /\ BoundingBoxOf(log.result) = BoundingBoxOf(delivered.result)

C5_StopCancelsTick ==
  /\ [](Stopped =>
          /\ rafQueue = {}
          /\ animationFrameRef = 0
          /\ detectionCanvasRef = Null)
  /\ [][Stopped => ~TickStep]_vars

\* C5 witness: the scheduler was stopped after it had begun a detection that is
\* still in flight
C5_Witness == Stopped /\ inflight # {} /\ rafQueue = {}

\* C6: a failure of the detector does not stop the render loop: the settling of
\* a failed cycle leaves the pending frame alone and clears the in-flight flag,
\* so that later cycles can begin; and a running scheduler whose preview canvas
\* gives a 2d context always has its next tick pending.
C6_FailureKeepsLoop ==
  /\ [][(SettleStep /\ log'.failed) =>
          /\ rafQueue' = rafQueue
          /\ animationFrameRef' = animationFrameRef
          /\ ~isDetectingRef']_vars
  /\ [](Running /\ previewCanvas.has2d => rafQueue # {})

\* C6 witness: the detector has failed in a cycle of a running scheduler, whose
\* next tick is pending and whose in-flight flag is clear
C6_Witness ==
  /\ log.settled /\ log.failed
  /\ Running /\ rafQueue # {} /\ ~isDetectingRef

\* C7 (as claimed): when the model throws during inference, onError is called
\* for that cycle and nothing is published to the subscribers.
C7_FailureReportedNotPublished ==
  (log.settled /\ log.failed) => (log.onError /\ ~log.published)

\* C8 (as claimed): a tick whose video is not ready copies nothing, begins no
\* detection and schedules the next tick; every tick of an enabled scheduler
\* schedules a successor.
C8_EveryTickReschedules ==
  log.op = "tick" =>
    /\ log.rescheduled
    /\ ~log.ready => (~log.copied /\ ~log.started)

\* C9 (as claimed): every tick with a ready video copies the frame to the
\* preview canvas.
C9_ReadyTickCopies ==
  (log.op = "tick" /\ log.ready) => log.copied

\* C9 (amended): every tick with a ready video and a preview canvas that gives a
\* 2d context copies the frame, whether or not a detection is in flight and
\* whether or not a cycle begins on that tick.
C9_ReadyTickWithContextCopies ==
  (log.op = "tick" /\ log.ready /\ previewCanvas.has2d) => log.copied

\* C9 witness: a tick has copied the frame while a detection begun on an earlier
\* tick was in flight
C9_Witness ==
  /\ log.op = "tick" /\ log.copied /\ ~log.started
  /\ inflight # {} /\ isDetectingRef

\* C10 (as claimed): after a cycle has completed while the scheduler runs, the
\* result last delivered (box and landmarks) is the result of that cycle.
C10_DeliveredIsLatestResult ==
  (log.settled /\ Running) => delivered.result = log.result

\* C10 (amended): after a cycle has completed, the bounding box last delivered
\* is the bounding box of that cycle's result, equal as the scheduler compares
\* boxes (by JSON serialisation); and the cycle delivered last never goes back.
C10_DeliveredBoxIsLatest ==
  /\ [](log.settled =>
          JSONstringify(BoundingBoxOf(delivered.result))
            = JSONstringify(BoundingBoxOf(log.result)))
  /\ [][delivered'.cycle >= delivered.cycle]_vars

\* C10 witness: a cycle has completed with the box delivered before and other
\* landmarks, which were not delivered
C10_Witness ==
  /\ log.settled /\ Running
  /\ log.result # Null /\ delivered.result # Null
  /\ log.result.boundingBox = delivered.result.boundingBox
  /\ log.result.landmarks # delivered.result.landmarks

(***************************************************************************)
(* JavaScript arithmetic, as the two engines use it.  A finite number is a *)
(* fraction v / d (d = 1 when the field is absent); the arithmetic is      *)
(* exact, so the rounding of doubles and the sign of zero are left out.    *)
(***************************************************************************)
Ratio(n, d) == [k |-> "num", v |-> n, d |-> d]
NegInfinity == [k |-> "-Infinity", v |-> 0]
Numer(a) == a.v
Denom(a) == IF "d" \in DOMAIN a THEN a.d ELSE 1
IsFinite(a) == a.k = "num"
\* -1, 0 or 1 for a number that is not NaN
Sign(a) ==
  IF a.k = "Infinity" THEN 1
  ELSE IF a.k = "-Infinity" THEN -1
  ELSE IF Numer(a) > 0 THEN 1 ELSE IF Numer(a) < 0 THEN -1 ELSE 0
SignedInfinity(s) == IF s < 0 THEN NegInfinity ELSE Infinity

\* -a
JSNeg(a) ==
  IF a.k = "NaN" THEN NaN
  ELSE IF a.k = "Infinity" THEN NegInfinity
  ELSE IF a.k = "-Infinity" THEN Infinity
  ELSE Ratio(0 - Numer(a), Denom(a))
\* a + b
JSAdd(a, b) ==
  IF a.k = "NaN" \/ b.k = "NaN" THEN NaN
  ELSE IF ~IsFinite(a) /\ ~IsFinite(b) THEN (IF a.k = b.k THEN a ELSE NaN)
  ELSE IF ~IsFinite(a) THEN a
  ELSE IF ~IsFinite(b) THEN b
  ELSE Ratio(Numer(a) * Denom(b) + Numer(b) * Denom(a), Denom(a) * Denom(b))
\* a - b
JSSub(a, b) == JSAdd(a, JSNeg(b))
\* a * b
JSMul(a, b) ==
  IF a.k = "NaN" \/ b.k = "NaN" THEN NaN
  ELSE IF ~IsFinite(a) \/ ~IsFinite(b)
  THEN (IF Sign(a) * Sign(b) = 0 THEN NaN ELSE SignedInfinity(Sign(a) * Sign(b)))
  ELSE Ratio(Numer(a) * Numer(b), Denom(a) * Denom(b))
\* a / b: a division by zero gives NaN (0 / 0) or an infinity
JSDiv(a, b) ==
  IF a.k = "NaN" \/ b.k = "NaN" THEN NaN
  ELSE IF ~IsFinite(a) /\ ~IsFinite(b) THEN NaN
  ELSE IF ~IsFinite(a) THEN SignedInfinity(IF Sign(b) = 0 THEN Sign(a) ELSE Sign(a) * Sign(b))
  ELSE IF ~IsFinite(b) THEN Ratio(0, 1)
  ELSE IF Numer(b) = 0 THEN (IF Numer(a) = 0 THEN NaN ELSE SignedInfinity(Sign(a)))
  ELSE IF Numer(b) > 0 THEN Ratio(Numer(a) * Denom(b), Denom(a) * Numer(b))
  ELSE Ratio(0 - Numer(a) * Denom(b), 0 - Denom(a) * Numer(b))
\* Math.abs(a)
MathAbs(a) ==
  IF a.k = "NaN" THEN NaN
  ELSE IF ~IsFinite(a) THEN Infinity
  ELSE IF Numer(a) < 0 THEN JSNeg(a) ELSE a
\* a < b: false when either is NaN
JSLt(a, b) ==
  IF a.k = "NaN" \/ b.k = "NaN" THEN FALSE
  ELSE IF a.k = "Infinity" \/ b.k = "-Infinity" THEN FALSE
  ELSE IF a.k = "-Infinity" \/ b.k = "Infinity" THEN TRUE
  ELSE Numer(a) * Denom(b) < Numer(b) * Denom(a)
\* a > b, a <= b, a >= b
JSGt(a, b) == JSLt(b, a)
JSLe(a, b) == a.k # "NaN" /\ b.k # "NaN" /\ ~JSLt(b, a)
JSGe(a, b) == JSLe(b, a)
\* a === 0
IsZero(a) == IsFinite(a) /\ Numer(a) = 0
\* Math.round(a) for a finite a: the integer nearest to a, halves going up
MathRound(a) == (2 * Numer(a) + Denom(a)) \div (2 * Denom(a))

(***************************************************************************)
(* utils/complianceRules: the five rules and checkCompliance.              *)
(*                                                                         *)
(* An ImageData is a width, a height and the gray level ((r + g + b) / 3)  *)
(* of each of its four 50 x 50 corner regions, every region uniform.       *)
(***************************************************************************)
US_PASSPORT_CONFIG ==
  [ country |-> "United States",
    headHeightMinPercent |-> 50, headHeightMaxPercent |-> 69,
    eyeHeightMinPercent |-> 56, eyeHeightMaxPercent |-> 69,
    backgroundVarianceThreshold |-> 30,
    outputWidth |-> 600, outputHeight |-> 600, outputDPI |-> 300 ]

RECURSIVE SumOf(_)
\* values.reduce((a, b) => a + b, 0)
SumOf(values) ==
  IF values = <<>> THEN Num(0) ELSE JSAdd(SumOf(Tail(values)), Head(values))

\* getBackgroundSample: the four corner regions, one after the other
getBackgroundSample(imageData, faceBox) ==
  [i \in 1..4 |-> Num(imageData.corners[i])]

\* the variance calculateVariance takes the square root of: its hundred samples
\* fall twenty-five in each region, so the four gray levels weigh the same
Variance(sample) ==
  LET mean == JSDiv(SumOf(sample), Num(Len(sample)))
      squares == [i \in DOMAIN sample |->
                    JSMul(JSSub(sample[i], mean), JSSub(sample[i], mean))]
  IN  JSDiv(SumOf(squares), Num(Len(sample)))
\* calculateVariance: Math.sqrt(variance), kept as the number under the root
calculateVariance(sample) == [sqrtOf |-> Variance(sample)]
\* Math.sqrt(v) < t, for v >= 0 and t >= 0
SqrtLt(root, t) == JSLt(root.sqrtOf, JSMul(t, t))

complianceRules ==
  << [ name |-> "Head Height",
       description |-> "Head must be between 50% and 69% of image height" ],
     [ name |-> "Eye Position",
       description |-> "Eyes must be positioned between 56% and 69% from bottom" ],
     [ name |-> "Face Centered",
       description |-> "Face must be horizontally centered" ],
     [ name |-> "Eyes Level",
       description |-> "Eyes must be level (no significant head tilt)" ],
     [ name |-> "Uniform Background",
       description |-> "Background must be uniform (low color variance)" ] >>

\* mutant: the two limits are excluded
HeadHeightCheck_Exclusive(imageData, faceBox, landmarks, width, height) ==
  LET headHeightPercent == JSMul(JSDiv(faceBox.height, height), Num(100))
  IN  /\ JSGt(headHeightPercent, Num(US_PASSPORT_CONFIG.headHeightMinPercent))
      /\ JSLt(headHeightPercent, Num(US_PASSPORT_CONFIG.headHeightMaxPercent))

HeadHeightCheck(imageData, faceBox, landmarks, width, height) ==
  LET headHeightPercent == JSMul(JSDiv(faceBox.height, height), Num(100))
  IN  /\ JSGe(headHeightPercent, Num(US_PASSPORT_CONFIG.headHeightMinPercent))
      /\ JSLe(headHeightPercent, Num(US_PASSPORT_CONFIG.headHeightMaxPercent))

\* mutant: the position of the left eye is taken for the mean of the two
EyePositionCheck_LeftEyeOnly(imageData, faceBox, landmarks, width, height) ==
  LET eyeY == landmarks.leftEye.y
      eyeHeightPercent == JSMul(JSDiv(JSSub(height, eyeY), height), Num(100))
  IN  /\ JSGe(eyeHeightPercent, Num(US_PASSPORT_CONFIG.eyeHeightMinPercent))
      /\ JSLe(eyeHeightPercent, Num(US_PASSPORT_CONFIG.eyeHeightMaxPercent))

EyePositionCheck(imageData, faceBox, landmarks, width, height) ==
  LET eyeY == JSDiv(JSAdd(landmarks.leftEye.y, landmarks.rightEye.y), Num(2))
      eyeHeightPercent == JSMul(JSDiv(JSSub(height, eyeY), height), Num(100))
  IN  /\ JSGe(eyeHeightPercent, Num(US_PASSPORT_CONFIG.eyeHeightMinPercent))
      /\ JSLe(eyeHeightPercent, Num(US_PASSPORT_CONFIG.eyeHeightMaxPercent))

\* mutant: an offset at the limit passes
FaceCenteredCheck_Inclusive(imageData, faceBox, landmarks, width, height) ==
  LET faceCenter == JSAdd(faceBox.x, JSDiv(faceBox.width, Num(2)))
      imageCenter == JSDiv(width, Num(2))
      offset == MathAbs(JSSub(faceCenter, imageCenter))
      maxOffset == JSMul(width, Ratio(15, 100))
  IN  JSLe(offset, maxOffset)

FaceCenteredCheck(imageData, faceBox, landmarks, width, height) ==
  LET faceCenter == JSAdd(faceBox.x, JSDiv(faceBox.width, Num(2)))
      imageCenter == JSDiv(width, Num(2))
      offset == MathAbs(JSSub(faceCenter, imageCenter))
      maxOffset == JSMul(width, Ratio(15, 100))
  IN  JSLt(offset, maxOffset)

\* mutant: a ratio at the limit passes
EyesLevelCheck_Inclusive(imageData, faceBox, landmarks, width, height) ==
  LET eyeDiff == MathAbs(JSSub(landmarks.leftEye.y, landmarks.rightEye.y))
      eyeDistance == MathAbs(JSSub(landmarks.leftEye.x, landmarks.rightEye.x))
  IN  JSLe(JSDiv(eyeDiff, eyeDistance), Ratio(1, 10))

EyesLevelCheck(imageData, faceBox, landmarks, width, height) ==
  LET leftEye == landmarks.leftEye
      rightEye == landmarks.rightEye
      eyeDiff == MathAbs(JSSub(leftEye.y, rightEye.y))
      eyeDistance == MathAbs(JSSub(leftEye.x, rightEye.x))
      tiltRatio == JSDiv(eyeDiff, eyeDistance)
  IN  JSLt(tiltRatio, Ratio(1, 10))

UniformBackgroundCheck(imageData, faceBox, landmarks, width, height) ==
  LET backgroundSample == getBackgroundSample(imageData, faceBox)
      variance == calculateVariance(backgroundSample)
  IN  SqrtLt(variance, Num(US_PASSPORT_CONFIG.backgroundVarianceThreshold))

\* complianceRules[i].check(imageData, faceBox, landmarks, width, height)
RuleCheck(i, imageData, faceBox, landmarks, width, height) ==
  CASE i = 1 -> HeadHeightCheck(imageData, faceBox, landmarks, width, height)
    [] i = 2 -> EyePositionCheck(imageData, faceBox, landmarks, width, height)
    [] i = 3 -> FaceCenteredCheck(imageData, faceBox, landmarks, width, height)
    [] i = 4 -> EyesLevelCheck(imageData, faceBox, landmarks, width, height)
    [] i = 5 -> UniformBackgroundCheck(imageData, faceBox, landmarks, width, height)

\* mutant: a failed rule ends the evaluation
RuleResults_StopAtFirstFailure(imageData, faceBox, landmarks) ==
  LET width == Num(imageData.width)
      height == Num(imageData.height)
      ok(i) == RuleCheck(i, imageData, faceBox, landmarks, width, height)
      last == IF \E i \in DOMAIN complianceRules : ~ok(i)
              THEN CHOOSE i \in DOMAIN complianceRules :
                     ~ok(i) /\ \A j \in 1..(i - 1) : ok(j)
              ELSE Len(complianceRules)
  IN  [i \in 1..last |-> [rule |-> complianceRules[i], passed |-> ok(i)]]

\* complianceRules.forEach: every rule is checked and its outcome pushed
RuleResults(imageData, faceBox, landmarks) ==
  LET width == Num(imageData.width)
      height == Num(imageData.height)
  IN  [i \in DOMAIN complianceRules |->
         [ rule |-> complianceRules[i],
           passed |-> RuleCheck(i, imageData, faceBox, landmarks, width, height) ]]

\* results.filter((r) => r.passed).length
PassedCount(results) == Cardinality({i \in DOMAIN results : results[i].passed})

\* Math.round((passedCount / totalCount) * 100)
Score(passedCount, totalCount) ==
  MathRound(JSMul(JSDiv(Num(passedCount), Num(totalCount)), Num(100)))

\* mutant: four rules out of five are enough
Passed_ByScore(passedCount, totalCount) == Score(passedCount, totalCount) >= 80

\* passedCount === totalCount
Passed(passedCount, totalCount) == passedCount = totalCount

\* `${r.rule.name}: ${r.rule.description}`
ReasonOf(rule) == rule.name \o ": " \o rule.description

\* results.filter((r) => !r.passed).map(...)
Reasons(results) ==
  LET failed == SelectSeq(results, LAMBDA r : ~r.passed)
  IN  [i \in DOMAIN failed |-> ReasonOf(failed[i].rule)]

checkCompliance(imageData, faceBox, landmarks) ==
  LET results == RuleResults(imageData, faceBox, landmarks)
      passedCount == PassedCount(results)
      totalCount == Len(results)
  IN  [ passed |-> Passed(passedCount, totalCount),
        reasons |-> Reasons(results),
        score |-> Score(passedCount, totalCount) ]

(***************************************************************************)
(* App: the capture / review / export workflow.                            *)
(*                                                                         *)
(* A handler runs to its first await in the step of the event that calls   *)
(* it; what follows the await runs in one later step, when the image has   *)
(* loaded, and its state updates are committed together.  The processing   *)
(* overlay covers the buttons but disables none of them, so an event can   *)
(* reach a button while a handler is waiting.                              *)
(***************************************************************************)
\* captures and uploads in one behaviour
MaxCaptures == 3
\* handlers and file reads waiting at one time
MaxPending == 2

\* the <video> of WebcamCapture before and after the stream delivers frames
NoVideo == [readyState |-> 0, videoWidth |-> 0, videoHeight |-> 0]
CameraVideo == [readyState |-> 4, videoWidth |-> 1280, videoHeight |-> 720]

\* An image as a data URL: the capture it comes from, its size, the gray levels
\* of its corner regions, whether an <img> can decode it, and whether a canvas
\* of its size is beyond what the browser gives a 2d context for.
ImageOf(shot, width, height, corners, decodable, large) ==
  [ shot |-> shot, width |-> width, height |-> height, corners |-> corners,
    decodable |-> decodable, large |-> large ]

\* what the camera can see behind the face: a plain wall, a busy room
Backgrounds == { <<245, 245, 225, 225>>, <<255, 255, 155, 155>> }

\* canvas.toDataURL after ctx.drawImage(video, 0, 0): a canvas of width or
\* height 0 gives "data:,", which no <img> loads
toDataURL(v, shot, corners) ==
  IF v.videoWidth = 0 \/ v.videoHeight = 0
  THEN ImageOf(shot, 0, 0, <<0, 0, 0, 0>>, FALSE, FALSE)
  ELSE ImageOf(shot, v.videoWidth, v.videoHeight, corners, TRUE, FALSE)

\* the files a user can pick: a photo, a very large photo, not an image
Files ==
  { [width |-> 1280, height |-> 720, decodable |-> TRUE, large |-> FALSE],
    [width |-> 16000, height |-> 12000, decodable |-> TRUE, large |-> TRUE],
    [width |-> 0, height |-> 0, decodable |-> FALSE, large |-> FALSE] }
\* reader.readAsDataURL(file)
readAsDataURL(file, shot) ==
  ImageOf(shot, file.width, file.height, <<255, 255, 255, 255>>,
          file.decodable, file.large)

\* a FaceDetectionResult in the coordinates of the frame
FaceAt(x, y, width, height, leftEye, rightEye) ==
  [ boundingBox |-> [x |-> Num(x), y |-> Num(y),
                     width |-> Num(width), height |-> Num(height)],
    landmarks |-> [ leftEye |-> Point(Num(leftEye[1]), Num(leftEye[2])),
                    rightEye |-> Point(Num(rightEye[1]), Num(rightEye[2])),
                    nose |-> Point(Num(x), Num(y)),
                    mouth |-> Point(Num(x), Num(y)),
                    chin |-> Point(Num(x), Num(y)) ],
    confidence |-> "0.9" ]
\* what the scheduler can publish for a 1280 x 720 frame: a face placed as the
\* rules ask, and a small face in a corner with the head tilted
CameraFaces ==
  { FaceAt(504, 100, 400, 396, <<604, 286>>, <<804, 290>>),
    FaceAt(0, 0, 200, 200, <<50, 80>>, <<150, 120>>) }

\* canvas.getContext('2d')! of a canvas made for the image: the browser may
\* refuse a context (has2d false) to a canvas beyond its limits
CanvasContext(imageData, has2d) == IF imageData.large THEN has2d ELSE TRUE

\* mutant: no sentinel, compliance stays null without a face
ComplianceAtCapture_NoSentinel(imageData, faceDetection) ==
  IF faceDetection # Null
  THEN checkCompliance(imageData, faceDetection.boundingBox, faceDetection.landmarks)
  ELSE Null

\* handleCapture: "Check compliance only if face was detected", else "create a
\* failed compliance result"
ComplianceAtCapture(imageData, faceDetection) ==
  IF faceDetection # Null
  THEN checkCompliance(imageData, faceDetection.boundingBox, faceDetection.landmarks)
  ELSE [ passed |-> FALSE, score |-> 0,
         reasons |-> <<"No face detected in the photo. Please retake with your face clearly visible.">> ]

\* handleAccept: the JPEG data URL of the final canvas, cropped around the face
\* when there is one, else the whole image resized
FinalImageData(photo) ==
  [ from |-> photo.imageData.shot,
    width |-> US_PASSPORT_CONFIG.outputWidth,
    height |-> US_PASSPORT_CONFIG.outputHeight,
    cropped |-> photo.faceDetection # Null ]

\* an id for a new waiting handler
FreeCall(waiting) == CHOOSE i \in 1..(Cardinality(waiting) + 1) : \A e \in waiting : e.call # i

\* the review screen is rendered: appState === 'review' && capturedPhoto &&
\* complianceResult
ReviewShown == appState = "review" /\ capturedPhoto # Null /\ complianceResult # Null
\* the export screen is rendered: appState === 'export' && processedImageData
ExportShown == appState = "export" /\ processedImageData # Null

\* mutant: the accept button is there for a compliant photo only
AcceptOffered_WhenPassed(result) == result.passed
\* ComplianceResult renders the accept button whatever result.passed is
AcceptOffered(result) == TRUE

\* WebcamCapture is rendered while appState === 'capture': entering the state
\* mounts a new instance (no stream yet, no detection), leaving it unmounts it
WebcamCaptureFor(next) ==
  IF next = "capture" /\ appState # "capture"
  THEN camera' = "starting" /\ currentFaceDetection' = Null /\ video' = NoVideo
  ELSE IF next # "capture" /\ appState = "capture"
  THEN camera' = "none" /\ currentFaceDetection' = Null /\ video' = NoVideo
  ELSE UNCHANGED << camera, currentFaceDetection, video >>

\* the variables of the frame scheduler the workflow leaves alone
schedulerVars ==
  << enabled, videoElement, canvasElement, animationFrameRef,
     lastDetectionTimeRef, detectionCanvasRef, isDetectingRef,
     lastFaceResultRef, detector, now, previewCanvas, rafQueue, inflight,
     mounted, cycleCount, lastStart, delivered, log >>

\* startWebcam settles: getUserMedia gave a stream, or it failed
StartWebcamSettles(ok) ==
  /\ camera = "starting"
  /\ camera' = IF ok THEN "stream" ELSE "error"
  /\ wf' = NoWf
  /\ UNCHANGED << appState, capturedPhoto, complianceResult, processedImageData,
                  isProcessing, pending, captureCount, discarded,
                  currentFaceDetection, video, schedulerVars, engineVars >>

\* "Retry Camera Access": startWebcam again
RetryCamera ==
  /\ camera = "error"
  /\ camera' = "starting"
  /\ wf' = NoWf
  /\ UNCHANGED << appState, capturedPhoto, complianceResult, processedImageData,
                  isProcessing, pending, captureCount, discarded,
                  currentFaceDetection, video, schedulerVars, engineVars >>

\* the stream delivers its first frame: the video has its dimensions
VideoLoads ==
  /\ camera = "stream" /\ video = NoVideo
  /\ video' = CameraVideo
  /\ wf' = NoWf
  /\ UNCHANGED << appState, capturedPhoto, complianceResult, processedImageData,
                  isProcessing, pending, captureCount, discarded, camera,
                  currentFaceDetection, schedulerVars, engineVars >>

\* the scheduler publishes a changed detection: handleFaceDetected(result)
HandleFaceDetected(result) ==
  /\ camera = "stream" /\ video = CameraVideo
  /\ result # currentFaceDetection
  /\ currentFaceDetection' = result
  /\ wf' = NoWf
  /\ UNCHANGED << appState, capturedPhoto, complianceResult, processedImageData,
                  isProcessing, pending, captureCount, discarded, camera,
                  video, schedulerVars, engineVars >>

\* App.handleCapture up to its await: the flag is set, the image starts loading
BeginHandleCapture(imageData, faceDetection, waiting) ==
  LET call == [ call |-> FreeCall(waiting), op |-> "capture",
                imageData |-> imageData, faceDetection |-> faceDetection,
                reviewed |-> Null ]
  IN  /\ isProcessing' = TRUE
      /\ pending' = waiting \cup {call}
      /\ wf' = [NoWf EXCEPT !.op = "capture", !.phase = "begin",
                            !.from = appState, !.call = call]

\* The capture button (enabled once the stream exists): WebcamCapture.handleCapture
\* draws the video on its canvas and calls onCapture with the data URL and the
\* detection last published.
Capture(corners) ==
  /\ appState = "capture" /\ camera = "stream"
  /\ captureCount < MaxCaptures /\ Cardinality(pending) < MaxPending
  /\ captureCount' = captureCount + 1
  /\ BeginHandleCapture(toDataURL(video, captureCount + 1, corners),
                        currentFaceDetection, pending)
  /\ UNCHANGED << appState, capturedPhoto, complianceResult, processedImageData,
                  discarded, camera, currentFaceDetection, video,
                  schedulerVars, engineVars >>

\* "Upload Photo Instead" on the camera error overlay: handleFileUpload starts
\* a FileReader
Upload(file) ==
  /\ appState = "capture" /\ camera = "error"
  /\ captureCount < MaxCaptures /\ Cardinality(pending) < MaxPending
  /\ captureCount' = captureCount + 1
  /\ LET call == [ call |-> FreeCall(pending), op |-> "read",
                   imageData |-> readAsDataURL(file, captureCount + 1),
                   faceDetection |-> Null, reviewed |-> Null ]
     IN  /\ pending' = pending \cup {call}
         /\ wf' = [NoWf EXCEPT !.op = "upload", !.phase = "begin",
                               !.from = appState, !.call = call]
  /\ UNCHANGED << appState, capturedPhoto, complianceResult, processedImageData,
                  isProcessing, discarded, camera, currentFaceDetection, video,
                  schedulerVars, engineVars >>

\* reader.onload: onCapture(imageData, null), whatever App shows by now
ReaderLoads(e) ==
  /\ e \in pending /\ e.op = "read"
  /\ BeginHandleCapture(e.imageData, Null, pending \ {e})
  /\ UNCHANGED << appState, capturedPhoto, complianceResult, processedImageData,
                  captureCount, discarded, camera, currentFaceDetection, video,
                  schedulerVars, engineVars >>

\* mutant: the flag is cleared only when the handler did not throw
FinallyIsProcessing_OnSuccessOnly(threw) == threw
\* finally { setIsProcessing(false) }
FinallyIsProcessing(threw) == FALSE

\* the image of a waiting handleCapture has loaded: the rest of the handler
CaptureCompletes(e, has2d) ==
  /\ e \in pending /\ e.op = "capture"
  /\ e.imageData.decodable
  /\ pending' = pending \ {e}
  /\ IF CanvasContext(e.imageData, has2d)
     THEN /\ capturedPhoto' = [imageData |-> e.imageData, faceDetection |-> e.faceDetection]
          /\ complianceResult' = ComplianceAtCapture(e.imageData, e.faceDetection)
          /\ appState' = "review"
          /\ WebcamCaptureFor("review")
          /\ isProcessing' = FinallyIsProcessing(FALSE)
          /\ wf' = [NoWf EXCEPT !.op = "capture", !.phase = "complete",
                                !.from = appState, !.call = e,
                                !.rulesEvaluated = (e.faceDetection # Null)]
     ELSE \* ctx.drawImage on null throws: catch { alert(...) }
          /\ isProcessing' = FinallyIsProcessing(TRUE)
          /\ wf' = [NoWf EXCEPT !.op = "capture", !.phase = "complete",
                                !.from = appState, !.call = e, !.alerted = TRUE]
          /\ UNCHANGED << appState, capturedPhoto, complianceResult, camera,
                          currentFaceDetection, video >>
  /\ UNCHANGED << processedImageData, captureCount, discarded,
                  schedulerVars, engineVars >>

\* The accept button of the review screen: handleAccept up to its await, with
\* the capturedPhoto of the render the button belongs to.
Accept ==
  /\ ReviewShown /\ AcceptOffered(complianceResult)
  /\ Cardinality(pending) < MaxPending
  /\ capturedPhoto # Null      \* "if (!capturedPhoto) return"
  /\ LET call == [ call |-> FreeCall(pending), op |-> "accept",
                   imageData |-> capturedPhoto.imageData,
                   faceDetection |-> capturedPhoto.faceDetection,
                   reviewed |-> capturedPhoto ]
     IN  /\ isProcessing' = TRUE
         /\ pending' = pending \cup {call}
         /\ wf' = [NoWf EXCEPT !.op = "accept", !.phase = "begin",
                               !.from = appState, !.call = call]
  /\ UNCHANGED << appState, capturedPhoto, complianceResult, processedImageData,
                  captureCount, discarded, camera, currentFaceDetection, video,
                  schedulerVars, engineVars >>

\* mutant: the handler reads the photo stored when it resumes
AcceptedPhoto_Current(e, current) ==
  IF current # Null THEN current
  ELSE [imageData |-> e.imageData, faceDetection |-> e.faceDetection]
\* the capturedPhoto handleAccept closed over when it was called
AcceptedPhoto(e, current) == [imageData |-> e.imageData, faceDetection |-> e.faceDetection]

\* the image of a waiting handleAccept has loaded: the rest of the handler
AcceptCompletes(e, has2d) ==
  /\ e \in pending /\ e.op = "accept"
  /\ e.imageData.decodable
  /\ pending' = pending \ {e}
  /\ IF CanvasContext(e.imageData, has2d)
     THEN /\ processedImageData' = FinalImageData(AcceptedPhoto(e, capturedPhoto))
          /\ appState' = "export"
          /\ WebcamCaptureFor("export")
          /\ isProcessing' = FinallyIsProcessing(FALSE)
          /\ wf' = [NoWf EXCEPT !.op = "accept", !.phase = "complete",
                                !.from = appState, !.call = e]
     ELSE /\ isProcessing' = FinallyIsProcessing(TRUE)
          /\ wf' = [NoWf EXCEPT !.op = "accept", !.phase = "complete",
                                !.from = appState, !.call = e, !.alerted = TRUE]
          /\ UNCHANGED << appState, processedImageData, camera,
                          currentFaceDetection, video >>
  /\ UNCHANGED << capturedPhoto, complianceResult, captureCount, discarded,
                  schedulerVars, engineVars >>

\* mutant: the finalized image survives
ClearedImage_Kept(image) == image
\* setProcessedImageData(null)
ClearedImage(image) == Null

\* handleRetake: every cell back to its initial value
handleRetake ==
  /\ capturedPhoto' = Null
  /\ complianceResult' = Null
  /\ processedImageData' = ClearedImage(processedImageData)
  /\ appState' = "capture"
  /\ WebcamCaptureFor("capture")
  /\ discarded' = IF capturedPhoto # Null
                  THEN discarded \cup {capturedPhoto.imageData.shot} ELSE discarded
  /\ UNCHANGED << isProcessing, pending, captureCount, schedulerVars, engineVars >>

\* "Retake Photo" on the review screen
Retake ==
  /\ ReviewShown
  /\ handleRetake
  /\ wf' = [NoWf EXCEPT !.op = "retake", !.phase = "complete", !.from = appState]

\* "Start Over" on the export screen: onStartOver = handleRetake
StartOver ==
  /\ ExportShown
  /\ handleRetake
  /\ wf' = [NoWf EXCEPT !.op = "startOver", !.phase = "complete", !.from = appState]

\* "Download Photo" on the export screen: handleDownload sets no state of App
Download ==
  /\ ExportShown
  /\ processedImageData # Null      \* "if (!processedImageData) return"
  /\ wf' = [NoWf EXCEPT !.op = "download", !.phase = "begin", !.from = appState]
  /\ UNCHANGED << appState, capturedPhoto, complianceResult, processedImageData,
                  isProcessing, pending, captureCount, discarded, camera,
                  currentFaceDetection, video, schedulerVars, engineVars >>

InitWorkflow == Init /\ previewCanvas.has2d

NextWorkflow ==
  \/ \E ok \in BOOLEAN : StartWebcamSettles(ok)
  \/ RetryCamera
  \/ VideoLoads
  \/ \E result \in CameraFaces \cup {Null} : HandleFaceDetected(result)
  \/ \E corners \in Backgrounds : Capture(corners)
  \/ \E file \in Files : Upload(file)
  \/ \E e \in pending : ReaderLoads(e)
  \/ \E e \in pending, has2d \in BOOLEAN : CaptureCompletes(e, has2d)
  \/ Accept
  \/ \E e \in pending, has2d \in BOOLEAN : AcceptCompletes(e, has2d)
  \/ Retake
  \/ StartOver
  \/ Download

SpecWorkflow == InitWorkflow /\ [][NextWorkflow]_vars

(***************************************************************************)
(* Properties of the workflow.                                             *)
(***************************************************************************)
\* the transitions of the workflow the specification allows
AllowedTransitions ==
  { <<"capture", "review">>, <<"review", "capture">>,
    <<"review", "export">>, <<"export", "capture">> }

\* C11: the workflow state changes only along Capture->Review, Review->Capture,
\* Review->Export and Export->Capture, whatever the interleaving of the user's
\* actions with the completion of waiting capture and accept handlers; Export
\* is never entered from Capture and Review never from Export.
C11_OnlyAllowedTransitions ==
  [][appState' # appState => <<appState, appState'>> \in AllowedTransitions]_vars

\* a step in which the waiting handler wf'.call of kind op ran to its end
Completes(op) == wf'.op = op /\ wf'.phase = "complete" /\ wf'.call # Null

Completed(op) == wf.op = op /\ wf.phase = "complete" /\ wf.call # Null

\* C13: the compliance outcome never blocks Review->Export: on the review
\* screen the accept action can be taken whatever ComplianceResult.passed is,
\* and an accept that ends without a failure of the finalization leaves the
\* workflow in Export.
C13_AcceptWhateverCompliance ==
  /\ (ReviewShown /\ Cardinality(pending) < MaxPending) => ENABLED Accept
  /\ (Completed("accept") /\ ~wf.alerted) => appState = "export"

\* the sentinel result of a capture without a face was accepted into Export
C13_Witness ==
  /\ Completed("accept") /\ wf.from = "review" /\ appState = "export"
  /\ complianceResult # Null
  /\ ~complianceResult.passed /\ complianceResult.score = 0
  /\ capturedPhoto # Null /\ capturedPhoto.faceDetection = Null

\* C14: whenever the workflow state is Export a finalized image is present,
\* and the step that stores a finalized image stores the one made from the
\* photo that was under review when that accept was invoked.
C14_ExportHasFinalizedImage ==
  /\ [](appState = "export" => processedImageData # Null)
  /\ [][ (Completes("accept") /\ ~wf'.alerted)
         => ( /\ processedImageData' # Null
              /\ processedImageData'.from = wf'.call.reviewed.imageData.shot
              /\ processedImageData'.cropped = (wf'.call.reviewed.faceDetection # Null) ) ]_vars

\* Export was entered from Review with the image cropped around the face of
\* the photo reviewed
C14_Witness ==
  /\ Completed("accept") /\ ~wf.alerted /\ wf.from = "review"
  /\ appState = "export" /\ processedImageData # Null
  /\ processedImageData.cropped
  /\ capturedPhoto # Null
  /\ processedImageData.from = capturedPhoto.imageData.shot

\* C15: retake and start-over can be taken whatever the compliance outcome,
\* each leaves the workflow in Capture with CapturedPhoto, ComplianceResult and
\* the finalized image cleared, and a Review never shows a photo that a retake
\* or start-over has discarded.
C15_RetakeClearsEverything ==
  /\ wf.op \in {"retake", "startOver"}
       => ( /\ appState = "capture"
            /\ capturedPhoto = Null
            /\ complianceResult = Null
            /\ processedImageData = Null )
  /\ ReviewShown => ENABLED Retake
  /\ ExportShown => ENABLED StartOver
  /\ (appState = "review" /\ capturedPhoto # Null)
       => capturedPhoto.imageData.shot \notin discarded

\* a photo was discarded and a later capture is under review, with no
\* finalized image left
C15_Witness ==
  /\ ReviewShown /\ discarded # {}
  /\ processedImageData = Null
  /\ \E shot \in discarded : shot < capturedPhoto.imageData.shot

\* C16: accept does not start while no CapturedPhoto is stored, and an accept
\* whose finalization fails leaves the workflow state, the CapturedPhoto and
\* the ComplianceResult as they were and clears the processing flag.
C16_FailedAcceptChangesNothing ==
  /\ [](capturedPhoto = Null => ~ENABLED Accept)
  /\ [][ (Completes("accept") /\ wf'.alerted)
         => ( /\ appState' = appState
              /\ capturedPhoto' = capturedPhoto
              /\ complianceResult' = complianceResult
              /\ processedImageData' = processedImageData
              /\ isProcessing' = FALSE ) ]_vars

\* the finalization of the photo under review failed: still Review, the photo
\* and its result still stored, the flag cleared
C16_Witness ==
  /\ Completed("accept") /\ wf.alerted
  /\ appState = "review" /\ capturedPhoto # Null /\ complianceResult # Null
  /\ capturedPhoto.imageData = wf.call.imageData
  /\ processedImageData = Null /\ ~isProcessing

(***************************************************************************)
(* checkCompliance as a function: one call on a captured image.            *)
(***************************************************************************)
\* the arguments of a call on a 1280 x 720 image with a white background, a
\* face box 400 wide with its left edge at x and the height given, and the
\* eyes 200 apart at leftY and rightY
ComplianceCall(x, height, leftY, rightY) ==
  [ imageData |-> ImageOf(0, 1280, 720, <<255, 255, 255, 255>>, TRUE, FALSE),
    faceBox |-> [x |-> Num(x), y |-> Num(100), width |-> Num(400), height |-> height],
    landmarks |-> [ leftEye |-> Point(Num(604), leftY),
                    rightEye |-> Point(Num(804), rightY),
                    nose |-> Point(Num(704), Num(350)),
                    mouth |-> Point(Num(704), Num(400)),
                    chin |-> Point(Num(704), Num(480)) ] ]

\* calls at and next to the limits of the rules: head heights around 50% and
\* 69% of 720 (360 and 496.8), eyes around 69% and 56% from the bottom (at
\* 223.2 and 316.8), the face centre around 15% of 1280 (192) from the image
\* centre, eyes 19, 20 and 21 out of level over a distance of 200, and the two
\* eyes at the same x, at one point or one 10 above the other
ComplianceBoundaryInputs ==
  { ComplianceCall(504, h, Num(286), Num(290)) :
      h \in { Num(359), Num(360), Ratio(4968, 10), Num(497) } }
  \cup
  { ComplianceCall(504, Num(396), y, y) :
      y \in { Num(223), Ratio(2232, 10), Ratio(3168, 10), Num(317) } }
  \cup
  { ComplianceCall(504, Num(396), Ratio(2222, 10), Ratio(2242, 10)),
    ComplianceCall(504, Num(396), Num(315), Num(319)) }
  \cup
  { ComplianceCall(x, Num(396), Num(286), Num(290)) : x \in {247, 248, 249, 631, 632, 633} }
  \cup
  { ComplianceCall(504, Num(396), Num(286), Num(286 + d)) : d \in {19, 20, 21, -20} }
  \cup
  { [ ComplianceCall(504, Num(396), Num(286), rightY)
        EXCEPT !.landmarks.rightEye.x = Num(604) ] : rightY \in { Num(286), Num(296) } }

\* a 1280 x 720 image and a detection: the head 55%, 50% or 28% of the image
\* height, the face 5% or 34% off the centre, the eyes 60% or 31% from the
\* bottom, tilted by 0.02 or 0.2, the background deviating by 10, 50 or 0
ComplianceInputs ==
  { [ imageData |-> ImageOf(0, 1280, 720, corners, TRUE, FALSE),
      faceBox |-> [x |-> Num(x), y |-> Num(100), width |-> Num(400), height |-> Num(h)],
      landmarks |-> [ leftEye |-> Point(Num(604), Num(eyeY - tilt)),
                      rightEye |-> Point(Num(804), Num(eyeY + tilt)),
                      nose |-> Point(Num(704), Num(350)),
                      mouth |-> Point(Num(704), Num(400)),
                      chin |-> Point(Num(704), Num(480)) ] ] :
      corners \in Backgrounds \cup { <<255, 255, 255, 255>> },
      x \in {504, 0}, h \in {396, 360, 200},
      eyeY \in {288, 500}, tilt \in {2, 20} }
  \cup ComplianceBoundaryInputs

InitCompliance ==
  /\ InitCameraLoop /\ previewCanvas.has2d /\ InitApp /\ InitNoGuidanceCall
  /\ InitFaceDetectionHook /\ InitWebcam /\ InitNoScaling
  /\ complianceArgs \in ComplianceInputs
  /\ complianceReturn = Null

\* checkCompliance(imageData, faceBox, landmarks) returns
CallCheckCompliance ==
  /\ complianceArgs # Null /\ complianceReturn = Null
  /\ complianceReturn' = checkCompliance(complianceArgs.imageData,
                                         complianceArgs.faceBox,
                                         complianceArgs.landmarks)
  /\ UNCHANGED << complianceArgs, guidanceArgs, guidanceReturn, guidanceMemo,
                  initVars, workflowVars, schedulerVars, currentFaceDetection, video >>

NextCompliance == CallCheckCompliance

SpecCompliance == InitCompliance /\ [][NextCompliance]_vars

\* the rules that pass on the arguments args, each checked by itself
RulesPassingOn(args) ==
  { i \in 1..5 :
      RuleCheck(i, args.imageData, args.faceBox, args.landmarks,
                Num(args.imageData.width), Num(args.imageData.height)) }
RulesPassing == RulesPassingOn(complianceArgs)

\* C17: for every combination of rule outcomes (the calls checked cover all
\* thirty-two), the score checkCompliance returns is the integer nearest to
\* 100 * passedCount / 5, hence one of 0, 20, 40, 60, 80, 100, and passed is
\* true exactly when the score is 100, that is when all five rules pass.
C17_ScoreAndPassed ==
  complianceReturn # Null =>
    LET n == Cardinality(RulesPassing)
        score == complianceReturn.score
    IN  /\ { RulesPassingOn(args) : args \in ComplianceInputs } = SUBSET (1..5)
        /\ 10 * score - 5 <= 200 * n /\ 200 * n < 10 * score + 5
        /\ score \in {0, 20, 40, 60, 80, 100}
        /\ complianceReturn.passed <=> (score = 100)
        /\ complianceReturn.passed <=> (n = 5)

\* four rules out of five pass: score 80, not passed
C17_Witness ==
  /\ complianceReturn # Null
  /\ Cardinality(RulesPassing) = 4
  /\ complianceReturn.score = 80 /\ ~complianceReturn.passed

\* the k-th failed rule of the call, in the order of complianceRules
FailedRule(k) ==
  CHOOSE i \in (1..5) \ RulesPassing :
    Cardinality({j \in (1..5) \ RulesPassing : j < i}) = k - 1

\* C18: every rule is evaluated, also after a failed one: reasons holds one
\* entry "<name>: <description>" for each failed rule and no other, in the order
\* Head Height, Eye Position, Face Centered, Eyes Level, Uniform Background;
\* reasons is empty exactly when passed.  All rules passing gives passed, 100
\* and no reason; the background rule alone failing gives not passed, 80 and
\* the one reason of that rule.
C18_ReasonsListFailedRules ==
  complianceReturn # Null =>
    LET reasons == complianceReturn.reasons
    IN  /\ [i \in 1..5 |-> complianceRules[i].name] =
             << "Head Height", "Eye Position", "Face Centered", "Eyes Level",
                "Uniform Background" >>
        /\ Len(reasons) = 5 - Cardinality(RulesPassing)
        /\ \A k \in 1..Len(reasons) :
             reasons[k] = complianceRules[FailedRule(k)].name \o ": "
                            \o complianceRules[FailedRule(k)].description
        /\ (reasons = <<>>) <=> complianceReturn.passed
        /\ RulesPassing = 1..5 =>
             complianceReturn = [passed |-> TRUE, score |-> 100, reasons |-> <<>>]
        /\ RulesPassing = 1..4 =>
             complianceReturn =
               [ passed |-> FALSE, score |-> 80,
                 reasons |-> <<"Uniform Background: Background must be uniform (low color variance)">> ]

\* the first and the last rule fail, the three between them pass: both are
\* reported, in that order
C18_Witness ==
  /\ complianceReturn # Null
  /\ RulesPassing = {2, 3, 4}
  /\ complianceReturn.reasons =
       << "Head Height: Head must be between 50% and 69% of image height",
          "Uniform Background: Background must be uniform (low color variance)" >>

(***************************************************************************)
(* utils/poseGuidance: calculatePoseGuidance, and hooks/usePoseGuidance.   *)
(* A message is written without its leading pictograph.                    *)
(***************************************************************************)
GuidanceState(message, type, isOptimal) ==
  [message |-> message, type |-> type, isOptimal |-> isOptimal]

\* "Define ideal face size (50-60% of frame height)"
idealFaceHeightMin(videoHeight) == JSMul(videoHeight, Ratio(5, 10))
idealFaceHeightMax(videoHeight) == JSMul(videoHeight, Ratio(6, 10))
\* |faceCenterX - idealCenterX| and its limit
horizontalOffset(videoWidth, faceBox) ==
  LET idealCenterX == JSDiv(videoWidth, Num(2))
      faceCenterX == JSAdd(faceBox.x, JSDiv(faceBox.width, Num(2)))
  IN  MathAbs(JSSub(faceCenterX, idealCenterX))
maxHorizontalOffset(videoWidth) == JSMul(videoWidth, Ratio(15, 100))
\* |faceCenterY - idealCenterY| and its limit
verticalOffset(videoHeight, faceBox) ==
  LET idealCenterY == JSMul(videoHeight, Ratio(45, 100))
      faceCenterY == JSAdd(faceBox.y, JSDiv(faceBox.height, Num(2)))
  IN  MathAbs(JSSub(faceCenterY, idealCenterY))
maxVerticalOffset(videoHeight) == JSMul(videoHeight, Ratio(15, 100))
\* mutant: eyes at the same x count as level
tiltRatio_ZeroWithoutDistance(landmarks) ==
  LET eyeDiff == MathAbs(JSSub(landmarks.leftEye.y, landmarks.rightEye.y))
      eyeDistance == MathAbs(JSSub(landmarks.leftEye.x, landmarks.rightEye.x))
  IN  IF IsZero(eyeDistance) THEN Num(0) ELSE JSDiv(eyeDiff, eyeDistance)

\* eyeDiff / eyeDistance
tiltRatio(landmarks) ==
  LET eyeDiff == MathAbs(JSSub(landmarks.leftEye.y, landmarks.rightEye.y))
      eyeDistance == MathAbs(JSSub(landmarks.leftEye.x, landmarks.rightEye.x))
  IN  JSDiv(eyeDiff, eyeDistance)

\* the conditions of the decision list, each by itself
ZeroFrame(videoWidth, videoHeight) == IsZero(videoWidth) \/ IsZero(videoHeight)

\* mutant: a height at the threshold counts as too small
FaceTooSmall_Inclusive(videoHeight, faceBox) ==
  JSLe(faceBox.height, JSMul(idealFaceHeightMin(videoHeight), Ratio(8, 10)))

FaceTooSmall(videoHeight, faceBox) ==
  JSLt(faceBox.height, JSMul(idealFaceHeightMin(videoHeight), Ratio(8, 10)))
FaceTooLarge(videoHeight, faceBox) ==
  JSGt(faceBox.height, JSMul(idealFaceHeightMax(videoHeight), Ratio(12, 10)))
\* mutant: an offset at the limit counts as off centre
OffCentreX_Inclusive(videoWidth, faceBox) ==
  JSGe(horizontalOffset(videoWidth, faceBox), maxHorizontalOffset(videoWidth))

OffCentreX(videoWidth, faceBox) ==
  JSGt(horizontalOffset(videoWidth, faceBox), maxHorizontalOffset(videoWidth))
OffCentreY(videoHeight, faceBox) ==
  JSGt(verticalOffset(videoHeight, faceBox), maxVerticalOffset(videoHeight))
\* mutant: a ratio at the limit counts as tilted
HeadTilted_Inclusive(landmarks) == JSGe(tiltRatio(landmarks), Ratio(1, 10))

HeadTilted(landmarks) == JSGt(tiltRatio(landmarks), Ratio(1, 10))
\* isOptimalSize && isOptimalPosition && isOptimalTilt
\* mutant: the optimal band for the height is open at its ends, and the limits of
\* the offsets and of the tilt are included
InOptimalPosition_Shifted(videoWidth, videoHeight, faceBox, landmarks) ==
  /\ JSGt(faceBox.height, idealFaceHeightMin(videoHeight))
  /\ JSLt(faceBox.height, idealFaceHeightMax(videoHeight))
  /\ JSLe(horizontalOffset(videoWidth, faceBox),
          JSMul(maxHorizontalOffset(videoWidth), Ratio(5, 10)))
  /\ JSLe(verticalOffset(videoHeight, faceBox),
          JSMul(maxVerticalOffset(videoHeight), Ratio(5, 10)))
  /\ JSLe(tiltRatio(landmarks), Ratio(5, 100))

\* mutant: whatever raised no warning is optimal
InOptimalPosition_NoWarning(videoWidth, videoHeight, faceBox, landmarks) ==
  /\ ~FaceTooSmall(videoHeight, faceBox) /\ ~FaceTooLarge(videoHeight, faceBox)
  /\ ~OffCentreX(videoWidth, faceBox) /\ ~OffCentreY(videoHeight, faceBox)
  /\ ~HeadTilted(landmarks)

InOptimalPosition(videoWidth, videoHeight, faceBox, landmarks) ==
  /\ JSGe(faceBox.height, idealFaceHeightMin(videoHeight))
  /\ JSLe(faceBox.height, idealFaceHeightMax(videoHeight))
  /\ JSLt(horizontalOffset(videoWidth, faceBox),
          JSMul(maxHorizontalOffset(videoWidth), Ratio(5, 10)))
  /\ JSLt(verticalOffset(videoHeight, faceBox),
          JSMul(maxVerticalOffset(videoHeight), Ratio(5, 10)))
  /\ JSLt(tiltRatio(landmarks), Ratio(5, 100))

\* the two answers of the centring rules and of the tilt rule
HorizontalGuidance(videoWidth, faceBox) ==
  IF JSLt(JSAdd(faceBox.x, JSDiv(faceBox.width, Num(2))), JSDiv(videoWidth, Num(2)))
  THEN GuidanceState("Move slightly to your right", "warning", FALSE)
  ELSE GuidanceState("Move slightly to your left", "warning", FALSE)
VerticalGuidance(videoHeight, faceBox) ==
  IF JSLt(JSAdd(faceBox.y, JSDiv(faceBox.height, Num(2))),
          JSMul(videoHeight, Ratio(45, 100)))
  THEN GuidanceState("Move down slightly", "warning", FALSE)
  ELSE GuidanceState("Move up slightly", "warning", FALSE)
TiltGuidance(landmarks) ==
  IF JSLt(landmarks.leftEye.y, landmarks.rightEye.y)
  THEN GuidanceState("Tilt your head slightly to the right", "warning", FALSE)
  ELSE GuidanceState("Tilt your head slightly to the left", "warning", FALSE)

\* mutant: the centring rules come before the size rules
calculatePoseGuidance_CentringFirst(videoWidth, videoHeight, faceBox, landmarks) ==
  IF ZeroFrame(videoWidth, videoHeight)
  THEN GuidanceState("Initializing...", "info", FALSE)
  ELSE IF OffCentreX(videoWidth, faceBox) THEN HorizontalGuidance(videoWidth, faceBox)
  ELSE IF OffCentreY(videoHeight, faceBox) THEN VerticalGuidance(videoHeight, faceBox)
  ELSE IF FaceTooSmall(videoHeight, faceBox)
  THEN GuidanceState("Move closer to the camera", "warning", FALSE)
  ELSE IF FaceTooLarge(videoHeight, faceBox)
  THEN GuidanceState("Step back a little", "warning", FALSE)
  ELSE IF HeadTilted(landmarks) THEN TiltGuidance(landmarks)
  ELSE IF InOptimalPosition(videoWidth, videoHeight, faceBox, landmarks)
  THEN GuidanceState("Perfect! Hold still and capture", "success", TRUE)
  ELSE GuidanceState("Almost there! Make small adjustments", "info", FALSE)

calculatePoseGuidance(videoWidth, videoHeight, faceBox, landmarks) ==
  IF ZeroFrame(videoWidth, videoHeight)
  THEN GuidanceState("Initializing...", "info", FALSE)
  ELSE IF FaceTooSmall(videoHeight, faceBox)
  THEN GuidanceState("Move closer to the camera", "warning", FALSE)
  ELSE IF FaceTooLarge(videoHeight, faceBox)
  THEN GuidanceState("Step back a little", "warning", FALSE)
  ELSE IF OffCentreX(videoWidth, faceBox) THEN HorizontalGuidance(videoWidth, faceBox)
  ELSE IF OffCentreY(videoHeight, faceBox) THEN VerticalGuidance(videoHeight, faceBox)
  ELSE IF HeadTilted(landmarks) THEN TiltGuidance(landmarks)
  ELSE IF InOptimalPosition(videoWidth, videoHeight, faceBox, landmarks)
  THEN GuidanceState("Perfect! Hold still and capture", "success", TRUE)
  ELSE GuidanceState("Almost there! Make small adjustments", "info", FALSE)


(***************************************************************************)
(* hooks/usePoseGuidance: useMemo keeps the value computed for the last    *)
(* dependencies [faceDetection, videoWidth, videoHeight].                  *)
(***************************************************************************)
\* mutant: the dependency array names the detection only
MemoDeps_FaceOnly(faceDetection, videoWidth, videoHeight) == << faceDetection >>

MemoDeps(faceDetection, videoWidth, videoHeight) ==
  << faceDetection, videoWidth, videoHeight >>

\* the callback given to useMemo
usePoseGuidance(faceDetection, videoWidth, videoHeight) ==
  IF faceDetection = Null \/ IsZero(videoWidth) \/ IsZero(videoHeight)
  THEN Null
  ELSE calculatePoseGuidance(videoWidth, videoHeight,
                             faceDetection.boundingBox, faceDetection.landmarks)

\* useMemo(callback, deps) on a render: the kept value when the dependencies
\* are the ones of the render before, the callback's value otherwise
useMemo(cell, deps, value) ==
  IF cell # Null /\ cell.deps = deps THEN cell ELSE [deps |-> deps, value |-> value]

\* a face 400 wide whose box has its centre at (cx, cy) and the height given
GuidanceFaceAt(cx, cy, height, leftEye, rightEye) ==
  [ FaceAt(cx - 200, 0, 400, 0, leftEye, rightEye) EXCEPT
      !.boundingBox.y = JSSub(Num(cy), JSDiv(height, Num(2))),
      !.boundingBox.height = height ]

\* faces at and next to the thresholds of a 1280 x 720 frame: heights around
\* 288, 360, 432 and 518.4; centres 192 and 96 from x = 640, 108 and 54 from
\* y = 324; eyes 200 apart and 20, 10, 9 or 21 out of level; and the eyes
\* (400,300),(600,302) and (400,280),(600,320)
BoundaryFaces ==
  { GuidanceFaceAt(640, 324, h, <<540, 284>>, <<740, 288>>) :
      h \in { Num(287), Num(288), Num(300), Num(359), Num(360), Num(432), Num(433),
              Num(518), Ratio(5184, 10), Num(519) } }
  \cup
  { GuidanceFaceAt(cx, 324, Num(396), <<540, 284>>, <<740, 288>>) :
      cx \in {447, 448, 544, 545, 735, 736, 832, 833} }
  \cup
  { GuidanceFaceAt(640, cy, Num(396), <<540, 284>>, <<740, 288>>) :
      cy \in {215, 216, 270, 271, 377, 378, 432, 433} }
  \cup
  { GuidanceFaceAt(640, 324, Num(396), <<540, 286>>, <<740, 286 + d>>) :
      d \in {9, 10, 20, 21, -21} }
  \cup
  { GuidanceFaceAt(640, 324, Num(396), <<400, 300>>, <<600, 302>>),
    GuidanceFaceAt(640, 324, Num(396), <<400, 280>>, <<600, 320>>) }

\* faces in a 1280 x 720 frame, 400 wide: at the centre, far left or far right;
\* 250 (too small), 396 or 600 (too large) high; centred, high or low in the
\* frame; the eyes 200 apart and 4 or 40 out of level
GuidanceFaces ==
  { FaceAt(x, y, 400, h, <<540, 286 - t>>, <<740, 286 + t>>) :
      x \in {440, 0, 900}, h \in {250, 396, 600}, y \in {0, 126, 500}, t \in {2, 20} }
  \cup
  { FaceAt(440, 126, 400, 396, <<540, 306>>, <<740, 266>>),   \* tilted the other way
    FaceAt(440, 126, 400, 396, <<540, 278>>, <<740, 294>>),   \* tilt 0.08
    FaceAt(440, 0, 400, 300, <<540, 284>>, <<740, 288>>),     \* 174 above the ideal centre
    FaceAt(440, 126, 400, 396, <<640, 286>>, <<640, 286>>),   \* the eyes at one point
    FaceAt(440, 126, 400, 396, <<640, 280>>, <<640, 290>>),   \* the eyes one above the other
    [ FaceAt(440, 126, 400, 396, <<540, 284>>, <<740, 288>>)
        EXCEPT !.boundingBox.height = NaN ] }
  \cup BoundaryFaces

\* frames: the camera's, and ones whose metadata has not loaded
GuidanceFrames ==
  { <<Num(1280), Num(720)>>, <<Num(0), Num(720)>>, <<Num(1280), Num(0)>>, <<Num(0), Num(0)>> }

GuidanceInputs ==
  { [ faceDetection |-> f, videoWidth |-> Num(1280), videoHeight |-> Num(720) ] :
      f \in GuidanceFaces }
  \cup
  { [ faceDetection |-> FaceAt(440, 126, 400, 396, <<540, 284>>, <<740, 288>>),
      videoWidth |-> d[1], videoHeight |-> d[2] ] : d \in GuidanceFrames }

\* what WebcamCapture renders the hook with: the face as the rules ask, in
\* every frame, and in the camera's frame the faces around the size thresholds
HookInputs ==
  { a \in GuidanceInputs :
      \/ a.faceDetection = FaceAt(440, 126, 400, 396, <<540, 284>>, <<740, 288>>)
      \/ \E h \in {Num(287), Num(288), Num(360), Num(519)} :
           a.faceDetection = GuidanceFaceAt(640, 324, h, <<540, 284>>, <<740, 288>>) }

\* a caller applies calculatePoseGuidance to arguments of its own
CallCalculatePoseGuidance(args) ==
  /\ guidanceArgs' = [ via |-> "call", faceDetection |-> args.faceDetection,
                       videoWidth |-> args.videoWidth, videoHeight |-> args.videoHeight ]
  /\ guidanceReturn' = calculatePoseGuidance(args.videoWidth, args.videoHeight,
                                             args.faceDetection.boundingBox,
                                             args.faceDetection.landmarks)
  /\ UNCHANGED << guidanceMemo, complianceArgs, complianceReturn, initVars,
                  workflowVars, schedulerVars, currentFaceDetection, video >>

\* a render of a component that uses the hook
RenderUsePoseGuidance(faceDetection, videoWidth, videoHeight) ==
  /\ guidanceArgs' = [ via |-> "hook", faceDetection |-> faceDetection,
                       videoWidth |-> videoWidth, videoHeight |-> videoHeight ]
  /\ guidanceMemo' = useMemo(guidanceMemo,
                             MemoDeps(faceDetection, videoWidth, videoHeight),
                             usePoseGuidance(faceDetection, videoWidth, videoHeight))
  /\ guidanceReturn' = guidanceMemo'.value
  /\ UNCHANGED << complianceArgs, complianceReturn, initVars,
                  workflowVars, schedulerVars, currentFaceDetection, video >>

InitGuidance == Init /\ previewCanvas.has2d

NextGuidance ==
  \/ \E args \in GuidanceInputs : CallCalculatePoseGuidance(args)
  \/ \E args \in HookInputs :
       RenderUsePoseGuidance(args.faceDetection, args.videoWidth, args.videoHeight)
  \/ \E d \in GuidanceFrames : RenderUsePoseGuidance(Null, d[1], d[2])

SpecGuidance == InitGuidance /\ [][NextGuidance]_vars


\* the rule of the decision list that is the first to apply to the arguments
\* args, each condition taken by itself: 1 a frame without width or height,
\* 2 too small, 3 too large, 4 off centre horizontally, 5 off centre
\* vertically, 6 tilted, 7 optimal, 8 none of these
FirstApplicable(args) ==
  LET w == args.videoWidth
      h == args.videoHeight
      b == args.faceDetection.boundingBox
      l == args.faceDetection.landmarks
      applies == << ZeroFrame(w, h), FaceTooSmall(h, b), FaceTooLarge(h, b),
                    OffCentreX(w, b), OffCentreY(h, b), HeadTilted(l),
                    InOptimalPosition(w, h, b, l), TRUE >>
  IN  CHOOSE i \in 1..8 : applies[i] /\ \A j \in 1..(i - 1) : ~applies[j]

\* the states each rule can answer with
RuleStates ==
  << { GuidanceState("Initializing...", "info", FALSE) },
     { GuidanceState("Move closer to the camera", "warning", FALSE) },
     { GuidanceState("Step back a little", "warning", FALSE) },
     { GuidanceState("Move slightly to your right", "warning", FALSE),
       GuidanceState("Move slightly to your left", "warning", FALSE) },
     { GuidanceState("Move down slightly", "warning", FALSE),
       GuidanceState("Move up slightly", "warning", FALSE) },
     { GuidanceState("Tilt your head slightly to the right", "warning", FALSE),
       GuidanceState("Tilt your head slightly to the left", "warning", FALSE) },
     { GuidanceState("Perfect! Hold still and capture", "success", TRUE) },
     { GuidanceState("Almost there! Make small adjustments", "info", FALSE) } >>

\* C19: whatever calculatePoseGuidance returns is an answer of the first rule,
\* in the order frame without size, too small, too large, horizontal offset,
\* vertical offset, tilt, optimal, fallback, that applies to its arguments; in
\* particular a box that is too small and off centre gets "Move closer".
C19_FirstApplicableRuleWins ==
  (guidanceArgs # Null /\ guidanceArgs.via = "call")
    => /\ guidanceReturn \in RuleStates[FirstApplicable(guidanceArgs)]
       /\ ( /\ ~ZeroFrame(guidanceArgs.videoWidth, guidanceArgs.videoHeight)
            /\ FaceTooSmall(guidanceArgs.videoHeight, guidanceArgs.faceDetection.boundingBox) )
          => guidanceReturn.message = "Move closer to the camera"

\* a call with a box that is too small and off centre both ways has returned
C19_Witness ==
  /\ guidanceArgs # Null /\ guidanceArgs.via = "call"
  /\ FaceTooSmall(guidanceArgs.videoHeight, guidanceArgs.faceDetection.boundingBox)
  /\ OffCentreX(guidanceArgs.videoWidth, guidanceArgs.faceDetection.boundingBox)
  /\ OffCentreY(guidanceArgs.videoHeight, guidanceArgs.faceDetection.boundingBox)
  /\ guidanceReturn.message = "Move closer to the camera"

\* every GuidanceState the function can return
GuidanceStates == UNION { RuleStates[i] : i \in 1..8 }

\* what the arguments of the latest call determine by themselves
GuidanceOf(args) ==
  IF args.via = "hook"
  THEN usePoseGuidance(args.faceDetection, args.videoWidth, args.videoHeight)
  ELSE calculatePoseGuidance(args.videoWidth, args.videoHeight,
                             args.faceDetection.boundingBox,
                             args.faceDetection.landmarks)

\* C20: every call of calculatePoseGuidance, made directly or through
\* usePoseGuidance, returns one GuidanceState (the hook returns null without a
\* detection or a frame size), and the state returned is the one its
\* arguments determine, whatever calls and renders came before, and whatever
\* useMemo keeps from them.
C20_TotalAndDeterministic ==
  guidanceArgs # Null
    => /\ guidanceArgs.via = "call" => guidanceReturn \in GuidanceStates
       /\ guidanceArgs.via = "hook" => guidanceReturn \in GuidanceStates \cup {Null}
       /\ guidanceReturn = GuidanceOf(guidanceArgs)
       /\ guidanceMemo # Null
            => guidanceMemo.value \in GuidanceStates \cup {Null}

\* a call for a face whose eyes are at one horizontal position (eye distance
\* 0) has returned a state, after a render through the hook that returned
\* another state
C20_Witness ==
  /\ guidanceArgs # Null /\ guidanceArgs.via = "call"
  /\ guidanceMemo # Null /\ guidanceMemo.value # Null
  /\ guidanceMemo.value # guidanceReturn
  /\ guidanceArgs.faceDetection.landmarks.leftEye.x
       = guidanceArgs.faceDetection.landmarks.rightEye.x
  /\ guidanceReturn \in GuidanceStates


(***************************************************************************)
(* Properties of detectFaces and of the scaling in the then-callback.      *)
(***************************************************************************)
\* C21: a call of detectFaces on an input whose width or height is 0 (the
\* detection canvas of a video less than 4 px wide) returns null and does not
\* call estimateFaces: no cycle is added to the calls of the model in flight.
C21_ZeroSizedInputSkipsModel ==
  [][ ( /\ log'.op = "tick" /\ log'.detDraw
        /\ (detectionCanvasRef'.width = 0 \/ detectionCanvasRef'.height = 0) )
      => /\ inflight' = inflight
         /\ log'.settled /\ log'.result = Null ]_vars

\* C21 witness: with the detector loaded, detectFaces has been called on a
\* detection canvas of width 0 and has returned null
C21_Witness ==
  /\ log.op = "tick" /\ log.detDraw /\ detector
  /\ detectionCanvasRef # Null
  /\ detectionCanvasRef.width = 0 /\ detectionCanvasRef.height > 0
  /\ log.settled /\ log.result = Null


(***************************************************************************)
(* hooks/useFaceDetection (the initialize effect) and the module-level     *)
(* detector of utils/faceDetection: initializeFaceDetection awaits         *)
(* createDetector, cleanupFaceDetection disposes.                          *)
(***************************************************************************)
\* the models createDetector is asked for, and the instances of WebcamCapture
MaxModels == 3
MaxMounts == 2

\* everything but the detector, the hook and the models
notInitVars ==
  << enabled, videoElement, canvasElement, animationFrameRef,
     lastDetectionTimeRef, detectionCanvasRef, isDetectingRef,
     lastFaceResultRef, currentFaceDetection, now, video, previewCanvas,
     rafQueue, inflight, mounted, cycleCount, lastStart, delivered, log,
     workflowVars, complianceArgs, complianceReturn, guidanceArgs,
     guidanceReturn, guidanceMemo, webcam, starts, streams, scaleArgs,
     scaleReturn >>

\* the models as they are once the module's variable is assigned the model
\* installedAs (0 for null): the model it held is overwritten, or dropped,
\* without a call of dispose()
Assign(ms, installedAs) ==
  [ i \in DOMAIN ms |->
      IF i = installedAs THEN [ms[i] EXCEPT !.state = "installed"]
      ELSE IF ms[i].state = "installed"
      THEN [ms[i] EXCEPT !.state = IF installedAs = 0 THEN "dropped" ELSE "overwritten"]
      ELSE ms[i] ]

\* mutant: dispose() is called on the model the variable held last, whether
\* or not the variable still holds it
Dispose_Unguarded(ms) ==
  [ i \in DOMAIN ms |->
      IF ms[i].state \in {"installed", "disposed"}
      THEN [state |-> "disposed", disposals |-> ms[i].disposals + 1]
      ELSE ms[i] ]

\* cleanupFaceDetection: "if (detector) { detector.dispose(); detector = null }"
Dispose(ms) ==
  [ i \in DOMAIN ms |->
      IF ms[i].state = "installed"
      THEN [state |-> "disposed", disposals |-> ms[i].disposals + 1]
      ELSE ms[i] ]

\* a state setter of the hook called from an invocation of initialize() that the
\* instance inst started: React drops it once that instance is unmounted
SetState(h, inst, field, value) ==
  IF h.mounted /\ h.instance = inst THEN [h EXCEPT ![field] = value] ELSE h

\* the cleanup of the initialize effect
InitializeCleanup ==
  /\ models' = Dispose(models)
  /\ detector' = FALSE

\* the stream arrives: enabled becomes true and the initialize effect runs.
\* With a detector present initializeFaceDetection returns at once; otherwise
\* it asks createDetector for a model and waits.
EnableFaceDetection ==
  /\ hook.mounted /\ ~hook.enabled
  /\ IF detector
     THEN /\ hook' = [hook EXCEPT !.enabled = TRUE, !.error = FALSE,
                                  !.isInitialized = TRUE, !.isLoading = FALSE]
          /\ UNCHANGED << loads, models >>
     ELSE /\ Len(models) < MaxModels
          /\ models' = Append(models, [state |-> "loading", disposals |-> 0])
          /\ loads' = loads \cup { [model |-> Len(models) + 1, instance |-> hook.instance] }
          /\ hook' = [hook EXCEPT !.enabled = TRUE, !.error = FALSE, !.isLoading = TRUE]
  /\ UNCHANGED << detector, notInitVars >>

\* enabled becomes false in a mounted component: the cleanup runs
DisableFaceDetection ==
  /\ hook.mounted /\ hook.enabled
  /\ InitializeCleanup
  /\ hook' = [hook EXCEPT !.enabled = FALSE, !.isInitialized = FALSE]
  /\ UNCHANGED << loads, notInitVars >>

\* WebcamCapture is unmounted: the cleanup runs if the effect had run
UnmountFaceDetection ==
  /\ hook.mounted
  /\ IF hook.enabled THEN InitializeCleanup ELSE UNCHANGED << models, detector >>
  /\ hook' = [hook EXCEPT !.mounted = FALSE, !.enabled = FALSE]
  /\ UNCHANGED << loads, notInitVars >>

\* a new WebcamCapture is mounted, with fresh state
MountFaceDetection ==
  /\ ~hook.mounted /\ hook.instance < MaxMounts
  /\ hook' = [ instance |-> hook.instance + 1, mounted |-> TRUE, enabled |-> FALSE,
               isInitialized |-> FALSE, isLoading |-> FALSE, error |-> FALSE ]
  /\ UNCHANGED << loads, models, detector, notInitVars >>

\* createDetector of the call l resolves: "detector = await createDetector(..)",
\* then initialize() goes on: setIsInitialized(true), finally setIsLoading(false)
CreateDetectorResolves(l) ==
  /\ l \in loads
  /\ loads' = loads \ {l}
  /\ models' = Assign(models, l.model)
  /\ detector' = TRUE
  /\ hook' = SetState(SetState(hook, l.instance, "isInitialized", TRUE),
                      l.instance, "isLoading", FALSE)
  /\ UNCHANGED notInitVars

\* createDetector of the call l rejects: "detector = null; throw error", then
\* initialize() catches: setError(..), finally setIsLoading(false)
CreateDetectorRejects(l) ==
  /\ l \in loads
  /\ loads' = loads \ {l}
  /\ models' = Assign([models EXCEPT ![l.model].state = "failed"], 0)
  /\ detector' = FALSE
  /\ hook' = SetState(SetState(hook, l.instance, "error", TRUE),
                      l.instance, "isLoading", FALSE)
  /\ UNCHANGED notInitVars

InitInitialization == Init /\ previewCanvas.has2d

NextInitialization ==
  \/ EnableFaceDetection
  \/ DisableFaceDetection
  \/ UnmountFaceDetection
  \/ MountFaceDetection
  \/ \E l \in loads : CreateDetectorResolves(l)
  \/ \E l \in loads : CreateDetectorRejects(l)

SpecInitialization == InitInitialization /\ [][NextInitialization]_vars

\* useCameraLoop of the mounted WebcamCapture is enabled: !!stream && isInitialized
SchedulerEnabled == hook.mounted /\ hook.enabled /\ hook.isInitialized

\* C22: whenever the scheduler is enabled (a stream, and isInitialized true),
\* the module's detector is set, so detectFaces does not find it missing.
C22_EnabledImpliesDetector == SchedulerEnabled => detector


(***************************************************************************)
(* hooks/useWebcam over the instances of WebcamCapture: startWebcam on     *)
(* mount and on retry, the cleanup on unmount.                             *)
(***************************************************************************)
\* the streams getUserMedia gives, and the calls of startWebcam
MaxStreams == 3
MaxStarts == 4

\* everything but the state of useWebcam and the streams
notWebcamVars ==
  << enabled, videoElement, canvasElement, animationFrameRef,
     lastDetectionTimeRef, detectionCanvasRef, isDetectingRef,
     lastFaceResultRef, detector, currentFaceDetection, now, video,
     previewCanvas, rafQueue, inflight, mounted, cycleCount, lastStart,
     delivered, log, workflowVars, complianceArgs, complianceReturn,
     guidanceArgs, guidanceReturn, guidanceMemo, hook, loads, models,
     scaleArgs, scaleReturn >>

\* stream.getTracks().forEach((track) => track.stop()), guarded by
\* "if (stream)"; 0 stands for null
StopTracks(ss, stream) ==
  IF stream = 0 THEN ss ELSE [ss EXCEPT ![stream].live = FALSE]

\* the stream the unmount cleanup sees: the effect has no dependencies, so its
\* cleanup closes over the stream of the first render, which is useState's
\* initial null
CleanupStream(w) == 0

\* getUserMedia of the call c resolves with a new stream; setStream keeps it
\* when the instance that called is still mounted
GetUserMediaResolves(c) ==
  /\ c \in starts /\ Len(streams) < MaxStreams
  /\ starts' = starts \ {c}
  /\ LET kept == webcam.mounted /\ webcam.instance = c.instance
     IN  /\ streams' = Append(streams, [instance |-> c.instance, kept |-> kept,
                                        live |-> TRUE])
         /\ webcam' = IF kept THEN [webcam EXCEPT !.stream = Len(streams) + 1]
                      ELSE webcam
  /\ UNCHANGED notWebcamVars

\* enumerateDevices or getUserMedia of the call c fails: setError
GetUserMediaRejects(c) ==
  /\ c \in starts
  /\ starts' = starts \ {c}
  /\ webcam' = IF webcam.mounted /\ webcam.instance = c.instance
               THEN [webcam EXCEPT !.error = TRUE] ELSE webcam
  /\ UNCHANGED << streams, notWebcamVars >>

\* "Retry Camera Access": startWebcam again, setError(null)
RetryStartWebcam ==
  /\ webcam.mounted /\ webcam.error /\ webcam.calls < MaxStarts
  /\ webcam' = [webcam EXCEPT !.error = FALSE, !.calls = @ + 1]
  /\ starts' = starts \cup { [instance |-> webcam.instance, call |-> webcam.calls + 1] }
  /\ UNCHANGED << streams, notWebcamVars >>

\* WebcamCapture is unmounted (the workflow leaves Capture): the cleanup runs
UnmountWebcamCapture ==
  /\ webcam.mounted
  /\ streams' = StopTracks(streams, CleanupStream(webcam))
  /\ webcam' = [webcam EXCEPT !.mounted = FALSE]
  /\ UNCHANGED << starts, notWebcamVars >>

\* a new WebcamCapture is mounted (retake, start over): startWebcam is called
MountWebcamCapture ==
  /\ ~webcam.mounted /\ webcam.instance < MaxMounts /\ webcam.calls < MaxStarts
  /\ webcam' = [ instance |-> webcam.instance + 1, mounted |-> TRUE,
                 stream |-> 0, error |-> FALSE, calls |-> webcam.calls + 1 ]
  /\ starts' = starts \cup { [instance |-> webcam.instance + 1,
                               call |-> webcam.calls + 1] }
  /\ UNCHANGED << streams, notWebcamVars >>

InitWebcamCycles == Init /\ previewCanvas.has2d

NextWebcamCycles ==
  \/ \E c \in starts : GetUserMediaResolves(c)
  \/ \E c \in starts : GetUserMediaRejects(c)
  \/ RetryStartWebcam
  \/ UnmountWebcamCapture
  \/ MountWebcamCapture

SpecWebcamCycles == InitWebcamCycles /\ [][NextWebcamCycles]_vars

\* the instance k of WebcamCapture has been torn down
TornDown(k) == webcam.instance > k \/ (webcam.instance = k /\ ~webcam.mounted)

\* C23: once an instance of the capture component is torn down, the tracks of
\* every stream it acquired and kept are stopped.
C23_TeardownStopsStreams ==
  \A i \in DOMAIN streams :
    (streams[i].kept /\ TornDown(streams[i].instance)) => ~streams[i].live


(***************************************************************************)
(* One detection cycle of renderLoop on a frame with a face in it: the     *)
(* frame is drawn into the detection canvas, the model finds the face      *)
(* where it lies in the canvas, the then-callback scales the result back.  *)
(***************************************************************************)
\* the videos: the camera's 1280 x 720, and two other sizes cameras deliver
ScalingVideos ==
  { [readyState |-> 4, videoWidth |-> 1280, videoHeight |-> 720],
    [readyState |-> 4, videoWidth |-> 854, videoHeight |-> 480],
    [readyState |-> 4, videoWidth |-> 640, videoHeight |-> 480] }

\* faces 200 x 250 that lie inside the video v, the eyes 80 apart
ScalingFaces(v) ==
  { FaceAt(x, y, 200, 250, <<x + 60, y + 100>>, <<x + 140, y + 100>>) :
      x \in { 100 * i : i \in 0..((v.videoWidth - 200) \div 100) },
      y \in { yy \in {0, 50, 200} : yy + 250 <= v.videoHeight } }

ScalingInputs ==
  UNION { { [video |-> v, face |-> f] : f \in ScalingFaces(v) } : v \in ScalingVideos }

\* detectionCtx.drawImage(videoElement, 0, 0, detectionCanvas.width,
\* detectionCanvas.height): the point (x, y) of the video lands at
\* (x * canvas.width / videoWidth, y * canvas.height / videoHeight)
DrawImageX(x, canvas, v) == JSDiv(JSMul(x, Num(canvas.width)), Num(v.videoWidth))
DrawImageY(y, canvas, v) == JSDiv(JSMul(y, Num(canvas.height)), Num(v.videoHeight))

\* what detectFaces resolves to for the face as it lies in the canvas
DetectedInCanvas(face, canvas, v) ==
  [ face EXCEPT
      !.boundingBox = [ x |-> DrawImageX(face.boundingBox.x, canvas, v),
                        y |-> DrawImageY(face.boundingBox.y, canvas, v),
                        width |-> DrawImageX(face.boundingBox.width, canvas, v),
                        height |-> DrawImageY(face.boundingBox.height, canvas, v) ],
      !.landmarks = [ key \in DOMAIN face.landmarks |->
                        Point(DrawImageX(face.landmarks[key].x, canvas, v),
                              DrawImageY(face.landmarks[key].y, canvas, v)) ] ]

InitScaling ==
  /\ InitCameraLoop /\ previewCanvas.has2d /\ InitApp /\ InitNoComplianceCall
  /\ InitNoGuidanceCall /\ InitFaceDetectionHook /\ InitWebcam
  /\ scaleArgs \in ScalingInputs
  /\ scaleReturn = Null

\* the cycle: getDetectionCanvas, the resize, drawImage, detectFaces, and the
\* scaling in the then-callback
DetectionCycleScales ==
  /\ scaleArgs # Null /\ scaleReturn = Null
  /\ LET canvas == ResizeDetectionCanvas(
                     GetDetectionCanvas(Null, scaleArgs.video, TRUE), scaleArgs.video)
     IN  scaleReturn' =
           [ detected |-> DetectedInCanvas(scaleArgs.face, canvas, scaleArgs.video),
             scaled |-> ScaleBack(DetectedInCanvas(scaleArgs.face, canvas,
                                                   scaleArgs.video)) ]
  /\ UNCHANGED << scaleArgs, hook, loads, models, webcam, starts, streams,
                  complianceArgs, complianceReturn, guidanceArgs, guidanceReturn,
                  guidanceMemo, workflowVars, schedulerVars, currentFaceDetection,
                  video >>

NextScaling == DetectionCycleScales

SpecScaling == InitScaling /\ [][NextScaling]_vars

\* b is a times f
IsMultiple(b, a, f) == IsZero(JSSub(b, JSMul(a, Num(f))))
\* a and b differ by at most 1
WithinOnePixel(a, b) == JSLe(MathAbs(JSSub(a, b)), Num(1))

\* C24: what the then-callback holds after scaling is, in every field of the
\* box and every coordinate of every landmark, 1 / detectionScale = 4 times
\* what detectFaces returned; and each field of the scaled box is within 1 px
\* of the face's box in the full-resolution frame.
C24_ScaleBackRoundTrip ==
  scaleReturn # Null
    => /\ \A f \in {"x", "y", "width", "height"} :
            IsMultiple(scaleReturn.scaled.boundingBox[f],
                       scaleReturn.detected.boundingBox[f], detectionScaleInv)
       /\ \A key \in DOMAIN scaleReturn.scaled.landmarks :
            /\ IsMultiple(scaleReturn.scaled.landmarks[key].x,
                          scaleReturn.detected.landmarks[key].x, detectionScaleInv)
            /\ IsMultiple(scaleReturn.scaled.landmarks[key].y,
                          scaleReturn.detected.landmarks[key].y, detectionScaleInv)
       /\ \A f \in {"x", "y", "width", "height"} :
            WithinOnePixel(scaleReturn.scaled.boundingBox[f],
                           scaleArgs.face.boundingBox[f])


(***************************************************************************)
(* The thresholds of calculatePoseGuidance.                                *)
(***************************************************************************)
\* a direct call of calculatePoseGuidance on a frame with width and height
GuidanceCalled ==
  /\ guidanceArgs # Null /\ guidanceArgs.via = "call"
  /\ ~IsZero(guidanceArgs.videoWidth) /\ ~IsZero(guidanceArgs.videoHeight)
\* the arguments of the call
ArgBox == guidanceArgs.faceDetection.boundingBox
ArgEyes == guidanceArgs.faceDetection.landmarks
\* p percent of the frame's height, and of its width
PercentOfHeight(p) == JSMul(guidanceArgs.videoHeight, Ratio(p, 100))
PercentOfWidth(p) == JSMul(guidanceArgs.videoWidth, Ratio(p, 100))

\* C25: on a frame with width and height, the answer is "Move closer" exactly
\* when the box height is below 40% (0.8 x 50%) of the frame height; when it is
\* not, the answer is "Step back" exactly when the box height is above 72%
\* (1.2 x 60%); a height at either threshold gets neither.  On 1280 x 720 a
\* height of 300 does not get "Move closer" and a height of 250 does.
C25_SizeThresholds ==
  GuidanceCalled
    => /\ (guidanceReturn.message = "Move closer to the camera")
            <=> JSLt(ArgBox.height, PercentOfHeight(40))
       /\ (guidanceReturn.message = "Step back a little")
            <=> ( /\ ~JSLt(ArgBox.height, PercentOfHeight(40))
                  /\ JSGt(ArgBox.height, PercentOfHeight(72)) )
       /\ guidanceReturn.message \in {"Move closer to the camera", "Step back a little"}
            => guidanceReturn.type = "warning"
       /\ guidanceArgs.videoHeight = Num(720)
            => /\ ArgBox.height = Num(300)
                    => guidanceReturn.message # "Move closer to the camera"
               /\ ArgBox.height = Num(250)
                    => guidanceReturn.message = "Move closer to the camera"

\* C25 witness: a call with a box height of exactly 288 = 0.8 x 360 on a frame
\* 720 high has returned neither size warning
C25_Witness ==
  /\ GuidanceCalled
  /\ guidanceArgs.videoHeight = Num(720) /\ ArgBox.height = Num(288)
  /\ guidanceReturn.message \notin {"Move closer to the camera", "Step back a little"}


\* no size rule fires for the arguments of the call
NoSizeRule ==
  /\ ~JSLt(ArgBox.height, PercentOfHeight(40))
  /\ ~JSGt(ArgBox.height, PercentOfHeight(72))
\* the centre of the box, and how far it is from the frame's horizontal centre
\* and from the target at 45% of the frame's height
BoxCentreX == JSAdd(ArgBox.x, JSMul(ArgBox.width, Ratio(1, 2)))
BoxCentreY == JSAdd(ArgBox.y, JSMul(ArgBox.height, Ratio(1, 2)))
FarFromCentreX == JSGt(MathAbs(JSSub(BoxCentreX, PercentOfWidth(50))), PercentOfWidth(15))
FarFromTargetY == JSGt(MathAbs(JSSub(BoxCentreY, PercentOfHeight(45))), PercentOfHeight(15))

\* C26: when no size rule fires, the answer is a horizontal warning exactly
\* when the centre of the box is more than 15% of the frame width from the
\* frame's centre: "Move ... right" when it is left of the centre, "Move ...
\* left" otherwise; when it is not, the answer is a vertical warning exactly
\* when the centre is more than 15% of the frame height from 45% of the
\* height: "Move down" when it is above the target, "Move up" otherwise.
C26_CentringThresholds ==
  (GuidanceCalled /\ NoSizeRule)
    => /\ (guidanceReturn.message = "Move slightly to your right")
            <=> (FarFromCentreX /\ JSLt(BoxCentreX, PercentOfWidth(50)))
       /\ (guidanceReturn.message = "Move slightly to your left")
            <=> (FarFromCentreX /\ ~JSLt(BoxCentreX, PercentOfWidth(50)))
       /\ (guidanceReturn.message = "Move down slightly")
            <=> (~FarFromCentreX /\ FarFromTargetY /\ JSLt(BoxCentreY, PercentOfHeight(45)))
       /\ (guidanceReturn.message = "Move up slightly")
            <=> (~FarFromCentreX /\ FarFromTargetY /\ ~JSLt(BoxCentreY, PercentOfHeight(45)))
       /\ (FarFromCentreX \/ FarFromTargetY) => guidanceReturn.type = "warning"

\* C26 witness: a call whose box is centred exactly 15% of the width (192 px
\* of 1280) left of the frame's centre, and vertically on target, has returned
\* no centring warning
C26_Witness ==
  /\ GuidanceCalled /\ NoSizeRule
  /\ guidanceArgs.videoWidth = Num(1280)
  /\ IsZero(JSSub(BoxCentreX, Num(448)))
  /\ guidanceReturn.type # "warning"


\* no centring rule fires for the arguments of the call
NoCentringRule == ~FarFromCentreX /\ ~FarFromTargetY
\* |leftEye.y - rightEye.y| / |leftEye.x - rightEye.x|
EyeTiltRatio ==
  JSDiv(MathAbs(JSSub(ArgEyes.leftEye.y, ArgEyes.rightEye.y)),
        MathAbs(JSSub(ArgEyes.leftEye.x, ArgEyes.rightEye.x)))
\* the eyes of the call are at (lx, ly) and (rx, ry)
EyesAt(lx, ly, rx, ry) ==
  /\ ArgEyes.leftEye = Point(Num(lx), Num(ly))
  /\ ArgEyes.rightEye = Point(Num(rx), Num(ry))

\* C27: when no size and no centring rule fires, the answer is a tilt warning
\* exactly when |leftEye.y - rightEye.y| / |leftEye.x - rightEye.x| is above
\* 0.10, and it names the side of the lower eye: "right" when the left eye is
\* the higher one (the smaller y), "left" otherwise.  Eyes at (400,300) and
\* (600,302) get no tilt warning, eyes at (400,280) and (600,320) get one.
C27_TiltThreshold ==
  (GuidanceCalled /\ NoSizeRule /\ NoCentringRule)
    => /\ (guidanceReturn.message = "Tilt your head slightly to the right")
            <=> ( /\ JSGt(EyeTiltRatio, Ratio(10, 100))
                  /\ JSLt(ArgEyes.leftEye.y, ArgEyes.rightEye.y) )
       /\ (guidanceReturn.message = "Tilt your head slightly to the left")
            <=> ( /\ JSGt(EyeTiltRatio, Ratio(10, 100))
                  /\ ~JSLt(ArgEyes.leftEye.y, ArgEyes.rightEye.y) )
       /\ JSGt(EyeTiltRatio, Ratio(10, 100)) => guidanceReturn.type = "warning"
       /\ EyesAt(400, 300, 600, 302)
            => /\ IsZero(JSSub(EyeTiltRatio, Ratio(1, 100)))
               /\ guidanceReturn.type # "warning"
       /\ EyesAt(400, 280, 600, 320)
            => /\ IsZero(JSSub(EyeTiltRatio, Ratio(20, 100)))
               /\ guidanceReturn.message = "Tilt your head slightly to the right"

\* C27 witness: a call with the eyes 200 apart and 20 out of level (a ratio of
\* exactly 0.10), no size or centring rule firing, has returned no warning
C27_Witness ==
  /\ GuidanceCalled /\ NoSizeRule /\ NoCentringRule
  /\ IsZero(JSSub(EyeTiltRatio, Ratio(10, 100)))
  /\ guidanceReturn.type # "warning"


\* no warning rule fires for the arguments of the call
NoWarningRule ==
  NoSizeRule /\ NoCentringRule /\ ~JSGt(EyeTiltRatio, Ratio(10, 100))
\* the box height is within [50%, 60%] of the frame height, the offsets are
\* below half of 15% of the width and of the height, the tilt is below 0.05
WithinOptimalBands ==
  /\ JSGe(ArgBox.height, PercentOfHeight(50))
  /\ JSLe(ArgBox.height, PercentOfHeight(60))
  /\ JSLt(MathAbs(JSSub(BoxCentreX, PercentOfWidth(50))),
          JSMul(PercentOfWidth(15), Ratio(1, 2)))
  /\ JSLt(MathAbs(JSSub(BoxCentreY, PercentOfHeight(45))),
          JSMul(PercentOfHeight(15), Ratio(1, 2)))
  /\ JSLt(EyeTiltRatio, Ratio(5, 100))

\* C28: the answer is the success state with isOptimal true exactly when no
\* warning rule fires, the box height is within [50%, 60%] of the frame
\* height, each offset is below half its limit and the tilt ratio is below
\* 0.05; when no warning rule fires and this is not so, the answer is "Almost
\* there", info, isOptimal false.  isOptimal is true with type success only.
C28_OptimalOrAlmost ==
  /\ GuidanceCalled
       => /\ (guidanceReturn = GuidanceState("Perfect! Hold still and capture",
                                             "success", TRUE))
               <=> (NoWarningRule /\ WithinOptimalBands)
          /\ (guidanceReturn = GuidanceState("Almost there! Make small adjustments",
                                             "info", FALSE))
               <=> (NoWarningRule /\ ~WithinOptimalBands)
  /\ (guidanceReturn # Null /\ guidanceReturn.isOptimal)
       => guidanceReturn.type = "success"

\* C28 witness: a call with a box height of exactly 50% of the frame height
\* (360 of 720), centred and level, has returned the success state
C28_Witness ==
  /\ GuidanceCalled
  /\ guidanceArgs.videoHeight = Num(720) /\ ArgBox.height = Num(360)
  /\ guidanceReturn.isOptimal /\ guidanceReturn.type = "success"


(***************************************************************************)
(* The limits of the compliance rules.                                     *)
(***************************************************************************)
\* the reason of the rule i is among the reasons checkCompliance returned
ReasonGiven(i) ==
  \E k \in DOMAIN complianceReturn.reasons :
    complianceReturn.reasons[k] = ReasonOf(complianceRules[i])
\* the height of the image of the call
ImageHeight == Num(complianceArgs.imageData.height)

\* C29: checkCompliance reports the Head Height rule as failed exactly when
\* 100 x faceBox.height / image height is outside [50, 69]; a height of exactly
\* 50% or 69% passes, and the outcomes of the other four rules, which take
\* every combination over the calls checked, make no difference.
C29_HeadHeightBand ==
  complianceReturn # Null
    => /\ ~ReasonGiven(1)
            <=> ( /\ JSLe(JSMul(ImageHeight, Num(50)),
                          JSMul(complianceArgs.faceBox.height, Num(100)))
                  /\ JSLe(JSMul(complianceArgs.faceBox.height, Num(100)),
                          JSMul(ImageHeight, Num(69))) )
       /\ \A others \in SUBSET (2..5) : \A own \in SUBSET {1} :
            \E args \in ComplianceInputs : RulesPassingOn(args) = others \cup own

\* C29 witness: a call with a head height of exactly 69% of the image height
\* (496.8 of 720) has returned, with the Head Height rule not among the reasons
C29_Witness ==
  /\ complianceReturn # Null
  /\ complianceArgs.faceBox.height = Ratio(4968, 10)
  /\ ~ReasonGiven(1)


\* the sum of the two eyes' y coordinates: twice their mean
EyeSumY ==
  JSAdd(complianceArgs.landmarks.leftEye.y, complianceArgs.landmarks.rightEye.y)
\* 2 x 100 x (height - mean eye y), to compare with 2 x p x height
EyeFromBottomTimes200 ==
  JSMul(JSSub(JSMul(ImageHeight, Num(2)), EyeSumY), Num(100))

\* C30: checkCompliance reports the Eye Position rule as failed exactly when
\* the mean of the two eyes' y coordinates, as percent of the image height
\* from the bottom (100 x (height - eyeY) / height), is outside [56, 69]; a
\* mean at exactly 56% or 69% passes.
C30_EyePositionBand ==
  complianceReturn # Null
    => ( ~ReasonGiven(2)
           <=> ( /\ JSLe(JSMul(ImageHeight, Num(2 * 56)), EyeFromBottomTimes200)
                 /\ JSLe(EyeFromBottomTimes200, JSMul(ImageHeight, Num(2 * 69))) ) )

\* C30 witness: a call whose eyes are both at y = 316.8 in an image 720 high,
\* exactly 56% from the bottom, has returned with the Eye Position rule not
\* among the reasons
C30_Witness ==
  /\ complianceReturn # Null
  /\ complianceArgs.landmarks.leftEye.y = Ratio(3168, 10)
  /\ complianceArgs.landmarks.rightEye.y = Ratio(3168, 10)
  /\ ~ReasonGiven(2)


\* two finite numbers of the same value
SameNumber(a, b) == JSLe(a, b) /\ JSLe(b, a)

\* twice the horizontal distance between the centre of the face box and the
\* centre of the image: |2 x + width of the box - width of the image|
CentreDistanceTimes2 ==
  MathAbs(JSSub(JSAdd(JSMul(complianceArgs.faceBox.x, Num(2)),
                      complianceArgs.faceBox.width),
                Num(complianceArgs.imageData.width)))

\* C31: checkCompliance reports the Face Centered rule as passed exactly when
\* the horizontal distance between the centre of the face box and the centre
\* of the image is strictly below 15% of the image width; at a distance of
\* exactly 15% (192 of 1280, on either side) the rule is reported as failed.
C31_FaceCenteredLimit ==
  complianceReturn # Null
    => /\ ~ReasonGiven(3)
            <=> JSLt(JSMul(CentreDistanceTimes2, Num(100)),
                     JSMul(Num(complianceArgs.imageData.width), Num(2 * 15)))
       /\ SameNumber(CentreDistanceTimes2, Num(2 * 192))
            /\ complianceArgs.imageData.width = 1280
            => ReasonGiven(3)

\* C31 witness: a call whose face box has its centre 192 to the left of the
\* centre of a 1280 wide image, exactly 15% of the width, has returned with
\* the Face Centered rule among the reasons
C31_Witness ==
  /\ complianceReturn # Null
  /\ complianceArgs.imageData.width = 1280
  /\ complianceArgs.faceBox.x = Num(248) /\ complianceArgs.faceBox.width = Num(400)
  /\ ReasonGiven(3)


\* the eyes of the call, |leftEye.y - rightEye.y| and |leftEye.x - rightEye.x|
CallEyeDiff ==
  MathAbs(JSSub(complianceArgs.landmarks.leftEye.y, complianceArgs.landmarks.rightEye.y))
CallEyeDistance ==
  MathAbs(JSSub(complianceArgs.landmarks.leftEye.x, complianceArgs.landmarks.rightEye.x))
\* what calculatePoseGuidance answers for the detection of the call in a frame
\* of the size of the image
GuidanceForCall ==
  calculatePoseGuidance(Num(complianceArgs.imageData.width),
                        Num(complianceArgs.imageData.height),
                        complianceArgs.faceBox, complianceArgs.landmarks)

\* C32: checkCompliance reports the Eyes Level rule as passed exactly when the
\* tilt ratio |leftEye.y - rightEye.y| / |leftEye.x - rightEye.x|, the ratio
\* calculatePoseGuidance computes from the same landmarks, is strictly below
\* 0.10; at a ratio of exactly 0.10 (20 over 200) the rule is reported as failed
\* while calculatePoseGuidance gives no tilt warning for the same detection.
C32_EyesLevelLimit ==
  complianceReturn # Null
    => /\ ~ReasonGiven(4) <=> JSLt(JSMul(CallEyeDiff, Num(10)), CallEyeDistance)
       /\ ~ReasonGiven(4) <=> JSLt(tiltRatio(complianceArgs.landmarks), Ratio(1, 10))
       /\ SameNumber(CallEyeDistance, Num(200)) /\ SameNumber(CallEyeDiff, Num(20))
            => /\ ReasonGiven(4)
               /\ ~HeadTilted(complianceArgs.landmarks)
               /\ GuidanceForCall.message
                    \notin { "Tilt your head slightly to the right",
                             "Tilt your head slightly to the left" }

\* C32 witness: a call with the eyes 200 apart and 20 out of level, a ratio of
\* exactly 0.10, has returned with the Eyes Level rule among the reasons
C32_Witness ==
  /\ complianceReturn # Null
  /\ SameNumber(CallEyeDistance, Num(200)) /\ SameNumber(CallEyeDiff, Num(20))
  /\ ReasonGiven(4)


(***************************************************************************)
(* utils/faceDetection called directly: initializeFaceDetection and        *)
(* cleanupFaceDetection are exported, and any caller may call them at any  *)
(* time, next to the calls the initialize effect of useFaceDetection makes.*)
(***************************************************************************)
\* the log of a direct call: the function called, and whether the module's
\* variable held a detector when it was called
CallLog(function, hadDetector) ==
  [NoLog EXCEPT !.op = function, !.ready = hadDetector]

\* everything a direct call leaves alone but the detector, the models and the log
notDetectorVars ==
  << enabled, videoElement, canvasElement, animationFrameRef,
     lastDetectionTimeRef, detectionCanvasRef, isDetectingRef,
     lastFaceResultRef, currentFaceDetection, now, video, previewCanvas,
     rafQueue, inflight, mounted, cycleCount, lastStart, delivered,
     workflowVars, complianceArgs, complianceReturn, guidanceArgs,
     guidanceReturn, guidanceMemo, hook, webcam, starts, streams, scaleArgs,
     scaleReturn >>

\* initializeFaceDetection(): "if (detector) return", else createDetector is
\* asked for a model and the call waits; the caller is no instance of the hook
CallInitializeFaceDetection ==
  /\ IF detector
     THEN UNCHANGED << loads, models >>
     ELSE /\ Len(models) < MaxModels
          /\ models' = Append(models, [state |-> "loading", disposals |-> 0])
          /\ loads' = loads \cup { [model |-> Len(models) + 1, instance |-> 0] }
  /\ log' = CallLog("initializeFaceDetection", detector)
  /\ UNCHANGED << detector, notDetectorVars >>

\* cleanupFaceDetection()
CallCleanupFaceDetection ==
  /\ models' = Dispose(models)
  /\ detector' = FALSE
  /\ log' = CallLog("cleanupFaceDetection", detector)
  /\ UNCHANGED << loads, notDetectorVars >>

NextDetectorCalls ==
  \/ CallInitializeFaceDetection
  \/ CallCleanupFaceDetection
  \/ NextInitialization

SpecDetectorCalls == InitInitialization /\ [][NextDetectorCalls]_vars

\* C33: a call of cleanupFaceDetection leaves the module without a detector,
\* and a call that finds none changes nothing, so that two calls in a row do
\* what one does; dispose() has run at most once on every model created; and
\* a call of initializeFaceDetection that finds a detector, made directly or
\* by the initialize effect, asks for no model and leaves the detector alone.
C33_CleanupAndInitializeIdempotent ==
  /\ [][ CallCleanupFaceDetection
           => /\ ~detector'
              /\ ~detector => UNCHANGED << detector, models, loads, hook >> ]_vars
  /\ [][ (CallInitializeFaceDetection \/ EnableFaceDetection) /\ detector
           => UNCHANGED << detector, models, loads >> ]_vars
  /\ [](\A i \in DOMAIN models : models[i].disposals <= 1)

\* C33 witness: cleanupFaceDetection has just been called and found no
\* detector, after an earlier call disposed of a model, the only one created
C33_Witness ==
  /\ log.op = "cleanupFaceDetection" /\ ~log.ready
  /\ Len(models) = 1 /\ models[1].state = "disposed" /\ models[1].disposals = 1
  /\ ~detector


(***************************************************************************)
(* The frame scheduler under fair scheduling: the browser runs a requested *)
(* animation frame callback at a later display refresh, and a call of      *)
(* estimateFaces settles.                                                  *)
(***************************************************************************)
SpecDetectionLiveness ==
  /\ Init /\ [][Next]_vars
  /\ WF_vars(\E e \in rafQueue, has2d \in BOOLEAN : Tick(e, has2d))
  /\ WF_vars(\E c \in inflight, outcome \in EstimateOutcomes : Resolve(c, outcome))

\* C34: whenever the in-flight flag isDetectingRef is set, it is eventually
\* cleared again, whether the detector call of the cycle resolves, rejects, or
\* was never issued because the detection canvas gave no drawing context.
C34_FlagEventuallyCleared == isDetectingRef ~> ~isDetectingRef


(***************************************************************************)
(* The workflow under fair scheduling, while the scheduler has published   *)
(* no detection (the camera has just started, or no face is in view): a    *)
(* FileReader finishes its read, and an image that can be decoded fires    *)
(* its load event, so the handler waiting for it resumes.                  *)
(***************************************************************************)
NextWorkflowLiveness ==
  \/ \E ok \in BOOLEAN : StartWebcamSettles(ok)
  \/ RetryCamera
  \/ VideoLoads
  \/ \E corners \in Backgrounds : Capture(corners)
  \/ \E file \in Files : Upload(file)
  \/ \E e \in pending : ReaderLoads(e)
  \/ \E e \in pending, has2d \in BOOLEAN : CaptureCompletes(e, has2d)
  \/ Accept
  \/ \E e \in pending, has2d \in BOOLEAN : AcceptCompletes(e, has2d)
  \/ Retake
  \/ StartOver
  \/ Download

SpecWorkflowLiveness ==
  /\ InitWorkflow /\ [][NextWorkflowLiveness]_vars
  /\ WF_vars(\E e \in pending : ReaderLoads(e))
  /\ WF_vars(\E e \in pending, has2d \in BOOLEAN : CaptureCompletes(e, has2d))
  /\ WF_vars(\E e \in pending, has2d \in BOOLEAN : AcceptCompletes(e, has2d))

\* C35: whenever the processing flag is set, by handleCapture or by
\* handleAccept, it is eventually cleared again, also when the image the
\* handler waits for cannot be decoded.
C35_ProcessingEventuallyCleared == isProcessing ~> ~isProcessing


\* C36: in every state of the workflow, whatever the interleaving of the user's
\* actions with waiting capture and accept handlers: in Review a CapturedPhoto
\* and a ComplianceResult are stored; in Export the CapturedPhoto the finalized
\* image was made from is still stored; in Capture no CapturedPhoto, no
\* ComplianceResult and no finalized image is stored.
C36_StateImpliesData ==
  /\ appState = "review" => (capturedPhoto # Null /\ complianceResult # Null)
  /\ appState = "export"
       => ( /\ capturedPhoto # Null
            /\ processedImageData = FinalImageData(capturedPhoto) )
  /\ appState = "capture"
       => ( /\ capturedPhoto = Null
            /\ complianceResult = Null
            /\ processedImageData = Null )


\* C37: at no time are two callbacks of renderLoop pending, whatever the
\* sequence of enabling, disabling, restarts of the effect and ticks; and while
\* the scheduler is enabled with a video and a preview canvas, exactly one is.
C37_ExactlyOnePendingTick ==
  /\ Cardinality(rafQueue) <= 1
  /\ Running => Cardinality(rafQueue) = 1


\* C38: once every load that was pending when cleanupFaceDetection ran has
\* completed, a hook that is disabled or unmounted leaves no detector
\* installed, and a mounted hook that is disabled does not have isInitialized
\* true; and with overlapping calls of initializeFaceDetection no model is
\* overwritten in, or dropped from, the module's variable without dispose().
C38_DisposalIsFinal ==
  /\ (~hook.enabled /\ loads = {}) => ~detector
  /\ (hook.mounted /\ ~hook.enabled /\ loads = {}) => ~hook.isInitialized
  /\ \A i \in DOMAIN models : models[i].state \notin {"overwritten", "dropped"}


(***************************************************************************)
(* The guidance optimum against the compliance rules.                      *)
(***************************************************************************)
\* what checkCompliance returns for the detection of the guidance call on an
\* image of the size of the frame
ComplianceForGuidanceCall ==
  checkCompliance(ImageOf(0, Numer(guidanceArgs.videoWidth), Numer(guidanceArgs.videoHeight),
                          <<255, 255, 255, 255>>, TRUE, FALSE),
                  ArgBox, ArgEyes)
\* the rule i is among its reasons
FailsForGuidanceCall(i) ==
  \E k \in DOMAIN ComplianceForGuidanceCall.reasons :
    ComplianceForGuidanceCall.reasons[k] = ReasonOf(complianceRules[i])

\* C39: whenever calculatePoseGuidance has returned isOptimal = true for a
\* detection in a frame of w x h, checkCompliance on an image of w x h with the
\* same bounding box and landmarks reports none of Head Height, Face Centered
\* and Eyes Level as failed.
C39_OptimumPassesThreeRules ==
  (guidanceArgs # Null /\ guidanceArgs.via = "call" /\ guidanceReturn.isOptimal)
    => /\ ~FailsForGuidanceCall(1)
       /\ ~FailsForGuidanceCall(3)
       /\ ~FailsForGuidanceCall(4)

\* C39 witness: calculatePoseGuidance has returned the optimum for a face whose
\* height is 60% of the frame's (432 of 720), and the three rules pass on it
C39_Witness ==
  /\ guidanceArgs # Null /\ guidanceArgs.via = "call" /\ guidanceReturn.isOptimal
  /\ ArgBox.height = Num(432)
  /\ ~FailsForGuidanceCall(1) /\ ~FailsForGuidanceCall(3) /\ ~FailsForGuidanceCall(4)


\* the two eyes of the guidance call have the same x coordinate
EyesAtSameX ==
  SameNumber(ArgEyes.leftEye.x, ArgEyes.rightEye.x)

\* C40: for a detection whose eyes have the same x coordinate, so that the
\* tilt ratio is a division by zero, calculatePoseGuidance returns one of its
\* GuidanceStates and not the optimum, and checkCompliance on an image of the
\* frame's size reports the Eyes Level rule as failed.
C40_ZeroEyeDistance ==
  (guidanceArgs # Null /\ guidanceArgs.via = "call" /\ EyesAtSameX)
    => /\ guidanceReturn \in GuidanceStates
       /\ ~guidanceReturn.isOptimal /\ guidanceReturn.type # "success"
       /\ FailsForGuidanceCall(4)

\* C40 witness: a call for a face of optimal size and position whose eyes are
\* at one point (0 / 0) has returned the state asking for small adjustments,
\* and the Eyes Level rule fails on the same detection
C40_Witness ==
  /\ guidanceArgs # Null /\ guidanceArgs.via = "call" /\ EyesAtSameX
  /\ SameNumber(ArgEyes.leftEye.y, ArgEyes.rightEye.y)
  /\ guidanceReturn = GuidanceState("Almost there! Make small adjustments", "info", FALSE)
  /\ FailsForGuidanceCall(4)

====
